---- MODULE Spec2Model ----
(***************************************************************************)
(* Model of the calendar server's in-memory event store                    *)
(* (internal/repository/event_repository/inmemory) and of the goroutines   *)
(* calling it.                                                             *)
(*                                                                         *)
(* Strings that the code orders or parses (Event.Date, Event.Title, the    *)
(* date argument of the queries) are sequences of byte values, so that     *)
(* Go's string comparison and time.Parse are computed, not assumed.        *)
(* Strings that the code only compares for equality (Event.ID,             *)
(* Event.UserID) are TLA+ strings.                                         *)
(***************************************************************************)
EXTENDS Integers, Sequences, FiniteSets, TLC

(***************************************************************************)
(* Bounds of the model.                                                    *)
(***************************************************************************)
\* number of goroutines calling the store concurrently
NumProcs == 2
\* number of calls the concurrent callers make in one behaviour
MaxCalls == 3

(***************************************************************************)
(* Byte strings.                                                           *)
(***************************************************************************)
\* '-' of the layout "2006-01-02"
Dash == 45
\* '0', the first digit
Zero == 48

Digit(n) == Zero + n

IsDigit(c) == c >= Zero /\ c <= Zero + 9

\* the date y-m-d written as the ten bytes "YYYY-MM-DD"
DateStr(y, m, d) ==
    << Digit(y \div 1000), Digit((y \div 100) % 10), Digit((y \div 10) % 10), Digit(y % 10),
       Dash, Digit(m \div 10), Digit(m % 10),
       Dash, Digit(d \div 10), Digit(d % 10) >>

\* Go's s < t on strings: bytewise lexicographic order
RECURSIVE StrLess(_, _)
StrLess(s, t) ==
    IF t = << >> THEN FALSE
    ELSE IF s = << >> THEN TRUE
    ELSE IF Head(s) # Head(t) THEN Head(s) < Head(t)
    ELSE StrLess(Tail(s), Tail(t))

(***************************************************************************)
(* time.Parse("2006-01-02", s) and the calendar arithmetic of package time *)
(***************************************************************************)
IsLeap(y) == y % 4 = 0 /\ (y % 100 # 0 \/ y % 400 = 0)

DaysIn(m, y) ==
    IF m = 2 THEN (IF IsLeap(y) THEN 29 ELSE 28)
    ELSE IF m \in {4, 6, 9, 11} THEN 30 ELSE 31

Num2(s, i) == (s[i] - Zero) * 10 + (s[i + 1] - Zero)

\* the zero time.Time, January 1 of year 1, which time.Parse returns with an error
ZeroTime == [y |-> 1, m |-> 1, d |-> 1]

\* [ok, t]: err == nil and the parsed date; on an error t is the zero Time
ParseDate(s) ==
    IF /\ Len(s) = 10
       /\ \A i \in {1, 2, 3, 4, 6, 7, 9, 10} : IsDigit(s[i])
       /\ s[5] = Dash /\ s[8] = Dash
    THEN LET y == Num2(s, 1) * 100 + Num2(s, 3)
             m == Num2(s, 6)
             d == Num2(s, 9)
         IN  IF m >= 1 /\ m <= 12 /\ d >= 1 /\ d <= DaysIn(m, y)
             THEN [ok |-> TRUE, t |-> [y |-> y, m |-> m, d |-> d]]
             ELSE [ok |-> FALSE, t |-> ZeroTime]
    ELSE [ok |-> FALSE, t |-> ZeroTime]

\* days of year y before its month m
RECURSIVE DaysBeforeMonth(_, _)
DaysBeforeMonth(m, y) ==
    IF m = 1 THEN 0 ELSE DaysBeforeMonth(m - 1, y) + DaysIn(m - 1, y)

\* Time.YearDay: day of the year, 1-based
YearDay(t) == DaysBeforeMonth(t.m, t.y) + t.d

\* days from 0001-01-01 (day 0, a Monday) to January 1 of year y
DaysBeforeYear(y) ==
    LET p == y - 1
    IN  365 * p + (p \div 4) - (p \div 100) + (p \div 400)

\* days since 0001-01-01
AbsDay(t) == DaysBeforeYear(t.y) + YearDay(t) - 1

\* 0 = Monday ... 6 = Sunday
Weekday(t) == AbsDay(t) % 7

\* faulty variant: the week is paired with the calendar year of t
ISOWeek_CalendarYear(t) ==
    LET thu  == AbsDay(t) + (3 - Weekday(t))
        yr   == IF thu < DaysBeforeYear(t.y) THEN t.y - 1
                ELSE IF thu >= DaysBeforeYear(t.y + 1) THEN t.y + 1
                ELSE t.y
        yday == thu - DaysBeforeYear(yr)
    IN  [year |-> t.y, week |-> (yday \div 7) + 1]

\* Time.ISOWeek: the year and the week of the Thursday of t's Monday-to-Sunday week
ISOWeek(t) ==
    LET thu  == AbsDay(t) + (3 - Weekday(t))
        yr   == IF thu < DaysBeforeYear(t.y) THEN t.y - 1
                ELSE IF thu >= DaysBeforeYear(t.y + 1) THEN t.y + 1
                ELSE t.y
        yday == thu - DaysBeforeYear(yr)
    IN  [year |-> yr, week |-> (yday \div 7) + 1]

\* faulty variant: the months are compared without the year
YearMonth_MonthOnly(t) == [year |-> 1, month |-> t.m]

\* Time.Year and Time.Month
YearMonth(t) == [year |-> t.y, month |-> t.m]

(***************************************************************************)
(* Values the callers pass: domain.Event and the arguments of the queries. *)
(***************************************************************************)
IDs == { "a", "b" }

\* the ids the goroutines of the concurrent-create test use, one per goroutine
GoIDList == << "A", "B", "C", "D", "E", "F", "G", "H", "I", "J" >>

GoIDs == { GoIDList[i] : i \in 1..NumProcs }

Users == { "user-1", "user-2" }

\* 2025-01-15 and 2025-01-22: one month, two ISO weeks
Dates == { DateStr(2025, 1, 15), DateStr(2025, 1, 22) }

\* "A" and "B"
Titles == { << 65 >>, << 66 >> }

\* domain.Event
Event == [ID : IDs, UserID : Users, Date : Dates, Title : Titles]

\* the goroutines that call the store concurrently
Procs == 1..NumProcs

\* the goroutine that calls the store alone (a test's own goroutine)
Main == NumProcs + 1

AllProcs == {Main} \cup Procs

Mutations == { "Create", "Update", "Delete" }

Queries == { "GetByUserIDAndDate", "GetByUserIDAndWeek", "GetByUserIDAndMonth" }

\* the calls of the methods of EventRepository with events of evs and users of us
CallsOf(evs, us) ==
    [op : {"Create", "Update"}, event : evs]
    \cup [op : {"Delete"}, eventID : { e.ID : e \in evs }]
    \cup [op : Queries, userID : us, date : Dates]

\* every call
Calls == CallsOf(Event, Users)

\* the calls the concurrent callers make: one user's events under one title, on
\* either date, and the queries of that user for 2025-01-15
ConcCalls ==
    { c \in CallsOf({ e \in Event : e.UserID = "user-1" /\ e.Title = << 65 >> }, {"user-1"}) :
        c.op \in Queries => c.date = DateStr(2025, 1, 15) }

\* TestEventRepository_ConcurrentAccess: every goroutine creates an event of
\* user-1 on 2025-01-15; here the goroutines may also pick the same id
GoEvents == [ID : GoIDs, UserID : {"user-1"}, Date : {DateStr(2025, 1, 15)}, Title : Titles]

GoCalls == [op : {"Create"}, event : GoEvents]

\* the query the test ends with
GoQuery == [op |-> "GetByUserIDAndDate", userID |-> "user-1", date |-> DateStr(2025, 1, 15)]

\* dates around the turn of a year and of a month: 2024-12-30 .. 2025-01-05 is
\* ISO week 1 of 2025, 2025-01-27 .. 2025-02-02 is ISO week 5
CalDates ==
    { DateStr(2024, 1, 15), DateStr(2024, 12, 29), DateStr(2024, 12, 30),
      DateStr(2025, 1, 1), DateStr(2025, 1, 15), DateStr(2025, 1, 16),
      DateStr(2025, 1, 22), DateStr(2025, 1, 31), DateStr(2025, 2, 1) }

CalEvents == [ID : IDs, UserID : Users, Date : CalDates, Title : { << 65 >> }]

\* the calls that fill a store with events of those dates and ask for a week or a month
CalCalls ==
    [op : {"Create"}, event : CalEvents]
    \cup [op : {"GetByUserIDAndWeek", "GetByUserIDAndMonth"}, userID : Users, date : CalDates]

\* what the callers of the use case pass besides the valid values: empty
\* strings, and dates that time.Parse rejects
UCIDs == IDs \cup { "" }

UCUsers == Users \cup { "" }

UCTitles == Titles \cup { << >> }

\* '/'
Slash == 47

\* "", "2025/01/15", "2025-13-01" and "2025-02-30"
BadDates ==
    { << >>,
      [DateStr(2025, 1, 15) EXCEPT ![5] = Slash, ![8] = Slash],
      DateStr(2025, 13, 1),
      DateStr(2025, 2, 30) }

UCDates == Dates \cup BadDates

UCEvent == [ID : UCIDs, UserID : UCUsers, Date : UCDates, Title : UCTitles]

UCWrites == { "CreateEvent", "UpdateEvent" }

UCQueries == { "GetEventsForDay", "GetEventsForWeek", "GetEventsForMonth" }

\* the calls of the methods of EventUseCaseContract
UCCalls ==
    [op : UCWrites, event : UCEvent]
    \cup [op : {"DeleteEvent"}, eventID : UCIDs]
    \cup [op : UCQueries, userID : UCUsers, date : UCDates]

\* the calls cs, each with its first argument: a context that is cancelled
\* (b) or not when the call is made
WithCtx(cs, b) == { c @@ [ctx |-> b] : c \in cs }

\* faulty variant: CreateEvent ends with repo.Update
RepoOp_CreateAsUpdate(op) ==
    CASE op = "CreateEvent" -> "Update"
      [] op = "UpdateEvent" -> "Update"
      [] op = "DeleteEvent" -> "Delete"
      [] op = "GetEventsForDay" -> "GetByUserIDAndDate"
      [] op = "GetEventsForWeek" -> "GetByUserIDAndWeek"
      [] op = "GetEventsForMonth" -> "GetByUserIDAndMonth"

\* the method of EventRepository a method of EventUseCase ends with
RepoOp(op) ==
    CASE op = "CreateEvent" -> "Create"
      [] op = "UpdateEvent" -> "Update"
      [] op = "DeleteEvent" -> "Delete"
      [] op = "GetEventsForDay" -> "GetByUserIDAndDate"
      [] op = "GetEventsForWeek" -> "GetByUserIDAndWeek"
      [] op = "GetEventsForMonth" -> "GetByUserIDAndMonth"

\* return uc.repo.Create(ctx, event), and the like: the call of the store
\* made by the call c of the use case, with the same arguments; uc keeps the
\* method of the use case that made it
RepoCall(c) ==
    [k \in DOMAIN c \cup {"uc"} |->
        IF k = "op" THEN RepoOp(c.op) ELSE IF k = "uc" THEN c.op ELSE c[k]]

\* the calls the concurrent callers of the use case make: with the events of
\* user-1 under one id and one title on either date, with four events that
\* break one rule of the validation each, deletions, and one query
ConcUCEvents ==
    { e \in UCEvent :
        \/ e.ID = "a" /\ e.UserID = "user-1" /\ e.Title = << 65 >> /\ e.Date \in Dates
        \/ e.ID = "" /\ e.UserID = "user-1" /\ e.Title = << 65 >> /\ e.Date = DateStr(2025, 1, 15)
        \/ e.ID = "a" /\ e.UserID = "" /\ e.Title = << 65 >> /\ e.Date = DateStr(2025, 1, 15)
        \/ e.ID = "a" /\ e.UserID = "user-1" /\ e.Title = << >> /\ e.Date = DateStr(2025, 1, 15)
        \/ e.ID = "a" /\ e.UserID = "user-1" /\ e.Title = << 65 >> /\ e.Date = DateStr(2025, 13, 1) }

ConcUCCalls ==
    [op : UCWrites, event : ConcUCEvents]
    \cup [op : {"DeleteEvent"}, eventID : {"", "a"}]
    \cup [op : {"GetEventsForDay"}, userID : {"user-1"}, date : {DateStr(2025, 1, 15)}]

\* the method of the use case the call c was made by or is
UCOfCall(c) == IF "uc" \in DOMAIN c THEN c.uc ELSE c.op

NoCall == [op |-> "none"]

\* error values: nil, the two sentinel errors of pkg/errors, context.Canceled
ErrNil == "nil"
ErrEventConflict == "event with this ID already exists"
ErrEventNotFound == "event not found"
ErrCanceled == "context canceled"
ErrInvalidDate == "invalid date format, expected YYYY-MM-DD"
ErrEmptyEventID == "event ID cannot be empty"
ErrEmptyUserID == "user ID cannot be empty"
ErrEmptyTitle == "event title cannot be empty"

NoRes == [err |-> "none"]

NoLoc == [todo |-> {}, events |-> {}]

(***************************************************************************)
(* sortEvents and the loop bodies of the three queries.                    *)
(***************************************************************************)
\* faulty variant: the titles do not break the ties of the dates
EventLess_DateOnly(a, b) == StrLess(a.Date, b.Date)

\* the less function sortEvents passes to sort.Slice
EventLess(a, b) ==
    IF a.Date = b.Date THEN StrLess(a.Title, b.Title) ELSE StrLess(a.Date, b.Date)

Range(f) == { f[x] : x \in DOMAIN f }

\* the orders sort.Slice can leave the collected events in: sort.Slice is not
\* stable and the range over the map visits in any order, so every arrangement
\* in which no element is less than one before it
SortedSeqs(evs) ==
    { q \in [1..Cardinality(evs) -> evs] :
        /\ Range(q) = evs
        /\ \A i, j \in DOMAIN q : i < j => ~EventLess(q[j], q[i]) }

\* faulty variant: the loop does not compare the user
Matches_AnyUser(call, event) ==
    IF call.op = "GetByUserIDAndDate" THEN event.Date = call.date
    ELSE LET target == ParseDate(call.date).t
             parsed == ParseDate(event.Date)
         IN  IF ~parsed.ok THEN FALSE
             ELSE IF call.op = "GetByUserIDAndWeek"
                  THEN ISOWeek(parsed.t) = ISOWeek(target)
                  ELSE YearMonth(parsed.t) = YearMonth(target)

\* faulty variant: the loop takes the zero Time for a stored date that does not
\* parse instead of passing the event over
Matches_NoSkip(call, event) ==
    IF event.UserID # call.userID THEN FALSE
    ELSE IF call.op = "GetByUserIDAndDate" THEN event.Date = call.date
    ELSE LET target == ParseDate(call.date).t
             parsed == ParseDate(event.Date)
         IN  IF call.op = "GetByUserIDAndWeek"
             THEN ISOWeek(parsed.t) = ISOWeek(target)
             ELSE YearMonth(parsed.t) = YearMonth(target)

\* the condition under which a query's loop appends the event it visits
Matches(call, event) ==
    IF event.UserID # call.userID THEN FALSE
    ELSE IF call.op = "GetByUserIDAndDate" THEN event.Date = call.date
    ELSE LET target == ParseDate(call.date).t
             parsed == ParseDate(event.Date)
         IN  IF ~parsed.ok THEN FALSE
             ELSE IF call.op = "GetByUserIDAndWeek"
                  THEN ISOWeek(parsed.t) = ISOWeek(target)
                  ELSE YearMonth(parsed.t) = YearMonth(target)

(***************************************************************************)
(* The validation of EventUseCase.                                         *)
(***************************************************************************)
isValidDate(date) == ParseDate(date).ok

\* faulty variant: the user id is checked before the event id
validateEvent_UserFirst(event) ==
    IF event.UserID = "" THEN ErrEmptyUserID
    ELSE IF event.ID = "" THEN ErrEmptyEventID
    ELSE IF event.Title = << >> THEN ErrEmptyTitle
    ELSE IF ~isValidDate(event.Date) THEN ErrInvalidDate
    ELSE ErrNil

\* faulty variant: the date is not checked
validateEvent_NoDate(event) ==
    IF event.ID = "" THEN ErrEmptyEventID
    ELSE IF event.UserID = "" THEN ErrEmptyUserID
    ELSE IF event.Title = << >> THEN ErrEmptyTitle
    ELSE ErrNil

validateEvent(event) ==
    IF event.ID = "" THEN ErrEmptyEventID
    ELSE IF event.UserID = "" THEN ErrEmptyUserID
    ELSE IF event.Title = << >> THEN ErrEmptyTitle
    ELSE IF ~isValidDate(event.Date) THEN ErrInvalidDate
    ELSE ErrNil

\* faulty variant: every id passes
validateEventID_Any(id) == ErrNil

validateEventID(id) == IF id = "" THEN ErrEmptyEventID ELSE ErrNil

validateUserID(userID) == IF userID = "" THEN ErrEmptyUserID ELSE ErrNil

validateDate(date) == IF ~isValidDate(date) THEN ErrInvalidDate ELSE ErrNil

\* faulty variant: UpdateEvent does not validate
Validate_CreateOnly(c) ==
    IF c.op = "CreateEvent" THEN validateEvent(c.event)
    ELSE IF c.op = "UpdateEvent" THEN ErrNil
    ELSE IF c.op = "DeleteEvent" THEN validateEventID(c.eventID)
    ELSE IF validateUserID(c.userID) # ErrNil THEN validateUserID(c.userID)
    ELSE validateDate(c.date)

\* faulty variant: the queries check the date before the user id
Validate_DateFirst(c) ==
    IF c.op \in UCWrites THEN validateEvent(c.event)
    ELSE IF c.op = "DeleteEvent" THEN validateEventID(c.eventID)
    ELSE IF validateDate(c.date) # ErrNil THEN validateDate(c.date)
    ELSE validateUserID(c.userID)

\* the error of the validation each method of EventUseCase starts with, or nil
Validate(c) ==
    IF c.op \in UCWrites THEN validateEvent(c.event)
    ELSE IF c.op = "DeleteEvent" THEN validateEventID(c.eventID)
    ELSE IF validateUserID(c.userID) # ErrNil THEN validateUserID(c.userID)
    ELSE validateDate(c.date)

(***************************************************************************)
(* State.                                                                  *)
(***************************************************************************)
VARIABLES
    events,   \* EventRepository.events: the map from event id to domain.Event
    mu,       \* EventRepository.mu: [w: a writer is inside, r: number of readers inside]
    pc,       \* per goroutine: where it is in its call
    call,     \* per goroutine: the method it called and the arguments
    loc,      \* per goroutine: a query's loop state (keys left, events collected)
    res,      \* per goroutine: what the call returns
    ncalls,   \* number of calls the concurrent callers made so far
    pre,      \* history: the map when the call of the lone caller began
    fresh,    \* history: per id, the Create that wrote it last, if no Update or Delete did since
    seen,     \* history: per goroutine in a query, the events whose Create had returned nil
              \* when the query was called and that no Update or Delete has changed since
    gone,     \* history of the lone caller: the ids whose last write, before the call
              \* under way began, was a Delete
    upd,      \* history of the lone caller: the event, and the user and date of the value
              \* it replaced, when the last write before the call under way began was an Update
    app       \* App.Run and its goroutines: signals, context, listener, serverErr, return

code == << events, mu, pc, call, loc, res >>

hist == << ncalls, pre, fresh, seen, gone, upd, app >>

vars == << events, mu, pc, call, loc, res, ncalls, pre, fresh, seen, gone, upd, app >>

NoFresh == [st |-> "no"]

\* App.Run has started its two goroutines and has not reached its select:
\* hs is where handleSignals is, sigChan its channel, ctx whether cancel() was
\* called, srv where ListenAndServe is, serverErr the channel of Run, run
\* where Run is, shut the Shutdown Run called, ret what Run returned. The
\* rest is history: sig the signal received last, first which of a
\* signal and a failure of the listener came first, ready the cases of the
\* select that could proceed when Run chose, chose the case it chose.
NewApp ==
    [hs |-> "notify", sigChan |-> << >>, ctx |-> FALSE, srv |-> "serving",
     serverErr |-> << >>, run |-> "select", shut |-> "none", ret |-> "none",
     sig |-> "none", first |-> "none", ready |-> {}, chose |-> "none"]

NoUpd == [id |-> "none"]

\* the state NewEventRepository constructs, with no call under way
Init ==
    /\ events = << >>
    /\ mu = [w |-> FALSE, r |-> 0]
    /\ pc = [p \in AllProcs |-> "idle"]
    /\ call = [p \in AllProcs |-> NoCall]
    /\ loc = [p \in AllProcs |-> NoLoc]
    /\ res = [p \in AllProcs |-> NoRes]
    /\ ncalls = 0
    /\ pre = << >>
    /\ fresh = [id \in IDs |-> NoFresh]
    /\ seen = [p \in AllProcs |-> {}]
    /\ gone = {}
    /\ upd = NoUpd
    /\ app = NewApp

(***************************************************************************)
(* sync.RWMutex.                                                           *)
(***************************************************************************)
\* faulty variant: no exclusion at all
CanLock_Never(m) == TRUE

\* faulty variant: a writer does not wait for the readers to leave
CanLock_IgnoreReaders(m) == ~m.w

\* Lock returns when no writer and no reader is inside
CanLock(m) == ~m.w /\ m.r = 0

\* faulty variant: a reader does not wait for the writer to leave
CanRLock_Always(m) == TRUE

\* RLock returns when no writer is inside (sync.RWMutex also holds new readers
\* back while a writer waits; allowing them here only adds interleavings)
CanRLock(m) == ~m.w

(***************************************************************************)
(* The map operations of the critical sections.                            *)
(***************************************************************************)
\* the id a Create, Update or Delete is about
CallID(c) == IF c.op = "Delete" THEN c.eventID ELSE c.event.ID

\* _, exists := r.events[id]
Exists(m, id) == id \in DOMAIN m

\* faulty variant: the write replaces the whole map
Put_Alone(m, event) == [k \in {event.ID} |-> event]

\* faulty variant: the write is lost
Put_Dropped(m, event) == m

\* faulty variant: a stored event only takes the new title
Put_TitleOnly(m, event) ==
    IF event.ID \in DOMAIN m
    THEN [m EXCEPT ![event.ID].Title = event.Title]
    ELSE [k \in DOMAIN m \cup {event.ID} |-> IF k = event.ID THEN event ELSE m[k]]

\* r.events[event.ID] = event
Put(m, event) ==
    [k \in DOMAIN m \cup {event.ID} |-> IF k = event.ID THEN event ELSE m[k]]

\* faulty variant: the entry stays
Remove_Keep(m, id) == m

\* faulty variant: delete clears the map
Remove_All(m, id) == << >>

\* delete(r.events, eventID)
Remove(m, id) == [k \in DOMAIN m \ {id} |-> m[k]]

(***************************************************************************)
(* The steps of a call.                                                    *)
(***************************************************************************)
\* faulty variant: the method does not look at the context
Enter_NoCtxCheck(p, cs, ctxs) ==
    /\ pc[p] = "idle"
    /\ \E c \in cs :
        /\ call' = [call EXCEPT ![p] = c]
        /\ res' = [res EXCEPT ![p] = NoRes]
        /\ pc' = [pc EXCEPT ![p] = "lock"]
    /\ UNCHANGED << events, mu, loc >>

\* A caller calls a method and its first statement runs:
\* if err := ctx.Err(); err != nil { return err }.
\* cs are the calls it may make; cancelled says whether the context is
\* cancelled by the time of that check, drawn from ctxs.
Enter(p, cs, ctxs) ==
    /\ pc[p] = "idle"
    /\ \E c \in cs, cancelled \in ctxs :
        /\ call' = [call EXCEPT ![p] = c]
        /\ IF cancelled
           THEN /\ res' = [res EXCEPT ![p] = [err |-> ErrCanceled]]
                /\ pc' = [pc EXCEPT ![p] = "done"]
           ELSE /\ res' = [res EXCEPT ![p] = NoRes]
                /\ pc' = [pc EXCEPT ![p] = "lock"]
    /\ UNCHANGED << events, mu, loc >>

\* r.mu.Lock()
Lock(p) ==
    /\ pc[p] = "lock"
    /\ call[p].op \in Mutations
    /\ CanLock(mu)
    /\ mu' = [mu EXCEPT !.w = TRUE]
    /\ pc' = [pc EXCEPT ![p] = "check"]
    /\ UNCHANGED << events, call, loc, res >>

\* r.mu.RLock(), and the start of the range over r.events
RLock(p) ==
    /\ pc[p] = "lock"
    /\ call[p].op \in Queries
    /\ CanRLock(mu)
    /\ mu' = [mu EXCEPT !.r = @ + 1]
    /\ pc' = [pc EXCEPT ![p] = "scan"]
    /\ loc' = [loc EXCEPT ![p] = [todo |-> DOMAIN events, events |-> {}]]
    /\ UNCHANGED << events, call, res >>

\* faulty variant: Create does not check and overwrites
CheckFails_Overwrite(c, m) ==
    IF c.op = "Create" THEN FALSE ELSE ~Exists(m, CallID(c))

\* faulty variant: Update does not check and inserts
CheckFails_Upsert(c, m) ==
    IF c.op = "Create" THEN Exists(m, CallID(c))
    ELSE IF c.op = "Update" THEN FALSE
    ELSE ~Exists(m, CallID(c))

\* faulty variant: Delete does not check
CheckFails_DeleteAny(c, m) ==
    IF c.op = "Create" THEN Exists(m, CallID(c))
    ELSE IF c.op = "Delete" THEN FALSE
    ELSE ~Exists(m, CallID(c))

\* whether the existence check of the method returns its error
CheckFails(c, m) ==
    IF c.op = "Create" THEN Exists(m, CallID(c)) ELSE ~Exists(m, CallID(c))

\* the error of that early return
CheckErr(c) == IF c.op = "Create" THEN ErrEventConflict ELSE ErrEventNotFound

\* faulty variant: Create stores its event before it returns the conflict
Check_Dirty(p) ==
    /\ pc[p] = "check"
    /\ IF CheckFails(call[p], events)
       THEN /\ res' = [res EXCEPT ![p] = [err |-> CheckErr(call[p])]]
            /\ pc' = [pc EXCEPT ![p] = "unlock"]
            /\ events' = IF call[p].op = "Create" THEN Put(events, call[p].event) ELSE events
       ELSE /\ pc' = [pc EXCEPT ![p] = "write"]
            /\ UNCHANGED << res, events >>
    /\ UNCHANGED << mu, call, loc >>

\* the existence check of Create, Update and Delete and the early return
Check(p) ==
    /\ pc[p] = "check"
    /\ IF CheckFails(call[p], events)
       THEN /\ res' = [res EXCEPT ![p] = [err |-> CheckErr(call[p])]]
            /\ pc' = [pc EXCEPT ![p] = "unlock"]
       ELSE /\ pc' = [pc EXCEPT ![p] = "write"]
            /\ UNCHANGED res
    /\ UNCHANGED << events, mu, call, loc >>

\* the map after the write of Create, Update or Delete
Written(c, m) == IF c.op = "Delete" THEN Remove(m, c.eventID) ELSE Put(m, c.event)

\* the map write of Create, Update and Delete and return nil
Write(p) ==
    /\ pc[p] = "write"
    /\ events' = Written(call[p], events)
    /\ res' = [res EXCEPT ![p] = [err |-> ErrNil]]
    /\ pc' = [pc EXCEPT ![p] = "unlock"]
    /\ UNCHANGED << mu, call, loc >>

\* faulty variant: the loop deletes the events it appends
Scan_Consume(p) ==
    /\ pc[p] = "scan"
    /\ loc[p].todo # {}
    /\ \E k \in loc[p].todo :
        /\ loc' = [loc EXCEPT ![p] =
              [todo |-> @.todo \ {k},
               events |-> IF Exists(events, k) /\ Matches(call[p], events[k])
                          THEN @.events \cup {events[k]} ELSE @.events]]
        /\ events' = IF Exists(events, k) /\ Matches(call[p], events[k])
                     THEN [j \in DOMAIN events \ {k} |-> events[j]] ELSE events
    /\ UNCHANGED << mu, pc, call, res >>

\* one iteration of for _, event := range r.events
Scan(p) ==
    /\ pc[p] = "scan"
    /\ loc[p].todo # {}
    /\ \E k \in loc[p].todo :
        loc' = [loc EXCEPT ![p] =
            [todo |-> @.todo \ {k},
             events |-> IF Exists(events, k) /\ Matches(call[p], events[k])
                        THEN @.events \cup {events[k]} ELSE @.events]]
    /\ UNCHANGED << events, mu, pc, call, res >>

\* the end of the loop, sortEvents(events) and return events, nil.
\* The slice is declared by var events []domain.Event, so it is nil unless
\* the loop appended to it.
Sort(p) ==
    /\ pc[p] = "scan"
    /\ loc[p].todo = {}
    /\ \E q \in SortedSeqs(loc[p].events) :
        res' = [res EXCEPT ![p] =
                   [err |-> ErrNil, events |-> q, isNil |-> loc[p].events = {}]]
    /\ loc' = [loc EXCEPT ![p] = NoLoc]
    /\ pc' = [pc EXCEPT ![p] = "unlock"]
    /\ UNCHANGED << events, mu, call >>

\* faulty variant: the lock is released on the success path only, as with an
\* Unlock at the end of the method in place of the deferred one
Unlock_OnSuccess(p) ==
    /\ pc[p] = "unlock"
    /\ mu' = IF res[p].err # ErrNil THEN mu
             ELSE IF call[p].op \in Mutations THEN [mu EXCEPT !.w = FALSE]
             ELSE [mu EXCEPT !.r = @ - 1]
    /\ pc' = [pc EXCEPT ![p] = "done"]
    /\ UNCHANGED << events, call, loc, res >>

\* the deferred r.mu.Unlock() or r.mu.RUnlock(), after which the caller has res
Unlock(p) ==
    /\ pc[p] = "unlock"
    /\ mu' = IF call[p].op \in Mutations THEN [mu EXCEPT !.w = FALSE]
             ELSE [mu EXCEPT !.r = @ - 1]
    /\ pc' = [pc EXCEPT ![p] = "done"]
    /\ UNCHANGED << events, call, loc, res >>

\* json.NewEncoder(w).Encode(Response{Result: events}): the value of "result"
\* for the slice a query returned; encoding/json writes a nil slice as null
EncodeResult(r) == IF r.isNil THEN "null" ELSE r.events

\* the caller has taken the result and is free to call again
Return(p) ==
    /\ pc[p] = "done"
    /\ pc' = [pc EXCEPT ![p] = "idle"]
    /\ call' = [call EXCEPT ![p] = NoCall]
    /\ res' = [res EXCEPT ![p] = NoRes]
    /\ UNCHANGED << events, mu, loc >>

(***************************************************************************)
(* The steps of a call of EventUseCase before it calls the store.          *)
(***************************************************************************)
\* faulty variant: the arguments are validated before the context is checked
UCEnter_ValidateFirst(p, cs, ctxs) ==
    /\ pc[p] = "idle"
    /\ \E c \in cs, cancelled \in ctxs :
        /\ call' = [call EXCEPT ![p] = c]
        /\ IF Validate(c) # ErrNil
           THEN /\ res' = [res EXCEPT ![p] = [err |-> Validate(c)]]
                /\ pc' = [pc EXCEPT ![p] = "done"]
           ELSE IF cancelled
           THEN /\ res' = [res EXCEPT ![p] = [err |-> ErrCanceled]]
                /\ pc' = [pc EXCEPT ![p] = "done"]
           ELSE /\ res' = [res EXCEPT ![p] = NoRes]
                /\ pc' = [pc EXCEPT ![p] = "repo"]
    /\ UNCHANGED << events, mu, loc >>

\* A caller calls a method of EventUseCase: the check of ctx.Err(), then the
\* validation of the arguments, each with its early return.
UCEnter(p, cs, ctxs) ==
    /\ pc[p] = "idle"
    /\ \E c \in cs, cancelled \in ctxs :
        /\ call' = [call EXCEPT ![p] = c]
        /\ IF cancelled
           THEN /\ res' = [res EXCEPT ![p] = [err |-> ErrCanceled]]
                /\ pc' = [pc EXCEPT ![p] = "done"]
           ELSE IF Validate(c) # ErrNil
           THEN /\ res' = [res EXCEPT ![p] = [err |-> Validate(c)]]
                /\ pc' = [pc EXCEPT ![p] = "done"]
           ELSE /\ res' = [res EXCEPT ![p] = NoRes]
                /\ pc' = [pc EXCEPT ![p] = "repo"]
    /\ UNCHANGED << events, mu, loc >>

\* faulty variant: the method of the store does not check ctx.Err()
Delegate_NoCheck(p, ctxs) ==
    /\ pc[p] = "repo"
    /\ call' = [call EXCEPT ![p] = RepoCall(call[p])]
    /\ res' = [res EXCEPT ![p] = NoRes]
    /\ pc' = [pc EXCEPT ![p] = "lock"]
    /\ UNCHANGED << events, mu, loc >>

\* return uc.repo.Create(ctx, event), and the like, up to the check of
\* ctx.Err() the method of the store starts with; what the store returns is
\* what the use case returns
Delegate(p, ctxs) ==
    /\ pc[p] = "repo"
    /\ call' = [call EXCEPT ![p] = RepoCall(call[p])]
    /\ \E cancelled \in ctxs :
        IF cancelled
        THEN /\ res' = [res EXCEPT ![p] = [err |-> ErrCanceled]]
             /\ pc' = [pc EXCEPT ![p] = "done"]
        ELSE /\ res' = [res EXCEPT ![p] = NoRes]
             /\ pc' = [pc EXCEPT ![p] = "lock"]
    /\ UNCHANGED << events, mu, loc >>

(***************************************************************************)
(* History of the concurrent callers, kept beside the steps of p.          *)
(***************************************************************************)
\* the events whose Create has returned nil and that no Update or Delete changed since
Returned == { fresh[id].event : id \in { i \in IDs : fresh[i].st = "returned" } }

Track(p) ==
    /\ fresh' =
        IF pc[p] = "write"
        THEN [fresh EXCEPT ![CallID(call[p])] =
                 IF call[p].op = "Create"
                 THEN [st |-> "written", by |-> p, event |-> call[p].event]
                 ELSE NoFresh]
        ELSE IF /\ pc[p] = "unlock" /\ call[p].op = "Create" /\ res[p].err = ErrNil
                /\ fresh[CallID(call[p])].st = "written"
                /\ fresh[CallID(call[p])].by = p
        THEN [fresh EXCEPT ![CallID(call[p])] =
                 [st |-> "returned", event |-> call[p].event]]
        ELSE fresh
    /\ seen' =
        IF pc[p] = "idle"
        THEN [seen EXCEPT ![p] = IF call'[p].op \in Queries THEN Returned ELSE {}]
        ELSE IF pc[p] = "done"
        THEN [seen EXCEPT ![p] = {}]
        ELSE IF pc[p] = "write" /\ call[p].op \in {"Update", "Delete"}
        THEN [q \in AllProcs |->
                 IF pc[q] \in {"lock", "scan"}
                 THEN { e \in seen[q] : e.ID # CallID(call[p]) }
                 ELSE seen[q]]
        ELSE seen
    /\ UNCHANGED << pre, gone, upd, app >>

\* a call of the concurrent callers, with a live context (context.Background())
ConcEnter(p) ==
    /\ ncalls < MaxCalls
    /\ ncalls' = ncalls + 1
    /\ Enter(p, ConcCalls, {FALSE})

(***************************************************************************)
(* Concurrent callers of one store.                                        *)
(***************************************************************************)
Next ==
    \E p \in Procs :
        \/ ConcEnter(p) /\ Track(p)
        \/ Lock(p) /\ Track(p) /\ UNCHANGED ncalls
        \/ RLock(p) /\ Track(p) /\ UNCHANGED ncalls
        \/ Check(p) /\ Track(p) /\ UNCHANGED ncalls
        \/ Write(p) /\ Track(p) /\ UNCHANGED ncalls
        \/ Scan(p) /\ Track(p) /\ UNCHANGED ncalls
        \/ Sort(p) /\ Track(p) /\ UNCHANGED ncalls
        \/ Unlock(p) /\ Track(p) /\ UNCHANGED ncalls
        \/ Return(p) /\ Track(p) /\ UNCHANGED ncalls

Spec == Init /\ [][Next]_vars

(***************************************************************************)
(* One caller, any sequence of calls with any arguments.                   *)
(***************************************************************************)
\* the call that has returned to the lone caller wrote the map
Wrote(op) == call[Main].op = op /\ res[Main].err = ErrNil

\* the lone caller calls a method; the history keeps the map of that moment
SeqEnter ==
    /\ Enter(Main, Calls, BOOLEAN)
    /\ pre' = events
    /\ UNCHANGED << ncalls, fresh, seen, gone, upd, app >>

\* the lone caller has the result; the history keeps what the call wrote
SeqReturn ==
    /\ Return(Main)
    /\ pre' = << >>
    /\ gone' = IF Wrote("Delete") THEN gone \cup {call[Main].eventID}
               ELSE IF Wrote("Create") THEN gone \ {call[Main].event.ID}
               ELSE gone
    /\ upd' = IF Wrote("Update")
              THEN [id |-> call[Main].event.ID, event |-> call[Main].event,
                    oldUser |-> pre[call[Main].event.ID].UserID,
                    oldDate |-> pre[call[Main].event.ID].Date]
              ELSE IF Wrote("Create") \/ Wrote("Delete") THEN NoUpd
              ELSE upd
    /\ UNCHANGED << ncalls, fresh, seen, app >>

SeqNext ==
    \/ SeqEnter
    \/ Lock(Main) /\ UNCHANGED hist
    \/ RLock(Main) /\ UNCHANGED hist
    \/ Check(Main) /\ UNCHANGED hist
    \/ Write(Main) /\ UNCHANGED hist
    \/ Scan(Main) /\ UNCHANGED hist
    \/ Sort(Main) /\ UNCHANGED hist
    \/ Unlock(Main) /\ UNCHANGED hist
    \/ SeqReturn

SpecSeq == Init /\ [][SeqNext]_vars

(***************************************************************************)
(* TestEventRepository_ConcurrentAccess: NumProcs goroutines call Create   *)
(* once each on a new store; when all have returned, the test's goroutine  *)
(* calls GetByUserIDAndDate.                                               *)
(***************************************************************************)
\* go func(i int) { ... repo.Create(ctx, event) ... }, ctx being context.Background()
Go(p) ==
    /\ pc[p] = "idle"
    /\ Enter(p, GoCalls, {FALSE})
    /\ UNCHANGED hist

\* for i := 0; i < 10; i++ { <-done }; repo.GetByUserIDAndDate(ctx, "user-1", "2025-01-15")
GoWait ==
    /\ pc[Main] = "idle"
    /\ \A p \in Procs : pc[p] = "done"
    /\ Enter(Main, {GoQuery}, {FALSE})
    /\ UNCHANGED hist

GoNext ==
    \/ \E p \in Procs :
        \/ Go(p)
        \/ Lock(p) /\ UNCHANGED hist
        \/ Check(p) /\ UNCHANGED hist
        \/ Write(p) /\ UNCHANGED hist
        \/ Unlock(p) /\ UNCHANGED hist
    \/ GoWait
    \/ RLock(Main) /\ UNCHANGED hist
    \/ Scan(Main) /\ UNCHANGED hist
    \/ Sort(Main) /\ UNCHANGED hist
    \/ Unlock(Main) /\ UNCHANGED hist

SpecGo == Init /\ [][GoNext]_vars

(***************************************************************************)
(* One caller creating events around the turn of a year and of a month and *)
(* asking for weeks and months.                                            *)
(***************************************************************************)
CalEnter ==
    /\ Enter(Main, CalCalls, {FALSE})
    /\ pre' = events
    /\ UNCHANGED << ncalls, fresh, seen, gone, upd, app >>

CalReturn ==
    /\ Return(Main)
    /\ pre' = << >>
    /\ UNCHANGED << ncalls, fresh, seen, gone, upd, app >>

CalNext ==
    \/ CalEnter
    \/ Lock(Main) /\ UNCHANGED hist
    \/ RLock(Main) /\ UNCHANGED hist
    \/ Check(Main) /\ UNCHANGED hist
    \/ Write(Main) /\ UNCHANGED hist
    \/ Scan(Main) /\ UNCHANGED hist
    \/ Sort(Main) /\ UNCHANGED hist
    \/ Unlock(Main) /\ UNCHANGED hist
    \/ CalReturn

SpecCal == Init /\ [][CalNext]_vars

(***************************************************************************)
(* One caller of the store, which validates nothing: events and target     *)
(* dates that do not parse, and events of the first days of year 1.        *)
(***************************************************************************)
\* valid dates: 0001-01-01 (the zero Time) and 0001-01-07, of ISO week 1 of
\* year 1, 0001-01-08 and 0001-02-01, and 2025-01-15
RawValid ==
    { DateStr(1, 1, 1), DateStr(1, 1, 7), DateStr(1, 1, 8), DateStr(1, 2, 1),
      DateStr(2025, 1, 15) }

\* "2025/01/15" and "2025-13-01", which time.Parse rejects
RawBad == { [DateStr(2025, 1, 15) EXCEPT ![5] = Slash, ![8] = Slash], DateStr(2025, 13, 1) }

RawEvents == [ID : IDs, UserID : {"user-1"}, Date : RawValid \cup RawBad, Title : { << 65 >> }]

RawCalls ==
    [op : {"Create"}, event : RawEvents]
    \cup [op : {"GetByUserIDAndWeek", "GetByUserIDAndMonth"}, userID : {"user-1"},
          date : RawBad \cup { << >>, DateStr(2025, 1, 15), DateStr(1, 1, 8) }]

RawEnter ==
    /\ Enter(Main, RawCalls, {FALSE})
    /\ pre' = events
    /\ UNCHANGED << ncalls, fresh, seen, gone, upd, app >>

RawReturn ==
    /\ Return(Main)
    /\ pre' = << >>
    /\ UNCHANGED << ncalls, fresh, seen, gone, upd, app >>

RawNext ==
    \/ RawEnter
    \/ Lock(Main) /\ UNCHANGED hist
    \/ RLock(Main) /\ UNCHANGED hist
    \/ Check(Main) /\ UNCHANGED hist
    \/ Write(Main) /\ UNCHANGED hist
    \/ Scan(Main) /\ UNCHANGED hist
    \/ Sort(Main) /\ UNCHANGED hist
    \/ Unlock(Main) /\ UNCHANGED hist
    \/ RawReturn

SpecRaw == Init /\ [][RawNext]_vars

(***************************************************************************)
(* Concurrent callers of Create, Delete and GetByUserIDAndWeek, each       *)
(* goroutine scheduled again and again while it can take a step.           *)
(***************************************************************************)
\* the calls of those callers: one event, both ids for Delete, one week
FairCalls ==
    [op : {"Create"}, event : { e \in Event : e.ID = "a" /\ e.UserID = "user-1"
                                  /\ e.Date = DateStr(2025, 1, 15) /\ e.Title = << 65 >> }]
    \cup [op : {"Delete"}, eventID : IDs]
    \cup [op : {"GetByUserIDAndWeek"}, userID : {"user-1"}, date : {DateStr(2025, 1, 15)}]

\* a goroutine calls a method; at most MaxCalls calls are made in all
FairEnter(p) ==
    /\ ncalls < MaxCalls
    /\ ncalls' = ncalls + 1
    /\ Enter(p, FairCalls, BOOLEAN)
    /\ UNCHANGED << pre, fresh, seen, gone, upd, app >>

\* the next statement of the method goroutine p is in, if p can run it: a
\* goroutine inside Lock or RLock cannot until the mutex admits it
FairStep(p) ==
    /\ \/ Lock(p)
       \/ RLock(p)
       \/ Check(p)
       \/ Write(p)
       \/ Scan(p)
       \/ Sort(p)
       \/ Unlock(p)
    /\ UNCHANGED hist

FairNext ==
    \E p \in Procs :
        \/ FairEnter(p)
        \/ Lock(p) /\ UNCHANGED hist
        \/ RLock(p) /\ UNCHANGED hist
        \/ Check(p) /\ UNCHANGED hist
        \/ Write(p) /\ UNCHANGED hist
        \/ Scan(p) /\ UNCHANGED hist
        \/ Sort(p) /\ UNCHANGED hist
        \/ Unlock(p) /\ UNCHANGED hist
        \/ Return(p) /\ UNCHANGED hist

\* the Go scheduler runs every goroutine that can run, and sync.RWMutex wakes
\* a waiting goroutine when the lock is released
SpecFair == Init /\ [][FairNext]_vars /\ \A p \in Procs : WF_vars(FairStep(p))

(***************************************************************************)
(* One caller of the store that compares what a query returns with what    *)
(* the same query returned before.                                         *)
(***************************************************************************)
\* events of one day, of either user, under either title
AgainEvents == [ID : IDs, UserID : Users, Date : {DateStr(2025, 1, 15)}, Title : Titles]

\* the calls of that caller; the queries ask for that day or for 2025-13-01
AgainCalls ==
    [op : Mutations \ {"Delete"}, event : AgainEvents]
    \cup [op : {"Delete"}, eventID : IDs]
    \cup [op : Queries, userID : Users, date : {DateStr(2025, 1, 15), DateStr(2025, 13, 1)}]

\* before the first query
NoLast == [q |-> NoCall, events |-> << >>, users |-> {}]

\* History, kept with the call: the last query that returned nil, the slice it
\* returned, and the users whose events a Create, Update or Delete that
\* returned nil has written or removed since.
Last == IF "last" \in DOMAIN call[Main] THEN call[Main].last ELSE NoLast

\* the query of the call c
QueryOf(c) == [op |-> c.op, userID |-> c.userID, date |-> c.date]

\* the users of the event the write that has returned replaced or removed and
\* of the event it stored
Touched ==
    (IF CallID(call[Main]) \in DOMAIN pre THEN {pre[CallID(call[Main])].UserID} ELSE {})
    \cup (IF call[Main].op = "Delete" THEN {} ELSE {call[Main].event.UserID})

AgainEnter ==
    /\ Enter(Main, { c @@ [last |-> Last] : c \in AgainCalls }, BOOLEAN)
    /\ pre' = events
    /\ UNCHANGED << ncalls, fresh, seen, gone, upd, app >>

AgainReturn ==
    /\ pc[Main] = "done"
    /\ pc' = [pc EXCEPT ![Main] = "idle"]
    /\ res' = [res EXCEPT ![Main] = NoRes]
    /\ call' = [call EXCEPT ![Main] =
                   [op |-> "none",
                    last |-> IF res[Main].err # ErrNil THEN Last
                             ELSE IF call[Main].op \in Queries
                             THEN [q |-> QueryOf(call[Main]), events |-> res[Main].events,
                                   users |-> {}]
                             ELSE [Last EXCEPT !.users = @ \cup Touched]]]
    /\ pre' = << >>
    /\ UNCHANGED << events, mu, loc, ncalls, fresh, seen, gone, upd, app >>

AgainNext ==
    \/ AgainEnter
    \/ Lock(Main) /\ UNCHANGED hist
    \/ RLock(Main) /\ UNCHANGED hist
    \/ Check(Main) /\ UNCHANGED hist
    \/ Write(Main) /\ UNCHANGED hist
    \/ Scan(Main) /\ UNCHANGED hist
    \/ Sort(Main) /\ UNCHANGED hist
    \/ Unlock(Main) /\ UNCHANGED hist
    \/ AgainReturn

SpecAgain == Init /\ [][AgainNext]_vars

(***************************************************************************)
(* One caller that writes to what a query returned to it. Variables of the *)
(* program are named by records; an assignment either copies an Event into *)
(* the variable assigned to or makes that variable refer to the Event of   *)
(* the other, as the type of the two says.                                 *)
(***************************************************************************)
\* type Event struct { ID, UserID, Date, Title string }: the types of the fields
EventFields == [ID |-> "string", UserID |-> "string", Date |-> "string", Title |-> "string"]

\* faulty variant: the map and the slices hold pointers, map[string]*domain.Event
ElemType_Pointer == "*Event"

\* the element type of r.events, map[string]domain.Event, and of the slices
\* the queries build and return, []domain.Event
ElemType == "Event"

\* the element of r.events under key k
MapElem(k) == [var |-> "r.events", at |-> k]

\* the variable event of for _, event := range r.events
RangeVar == [var |-> "event"]

\* the element i of the slice events of a query, which is the slice its
\* caller gets: return events, nil returns the slice, not a copy of its array
SliceElem(i) == [var |-> "events", at |-> i]

\* x = y for variables of type t, the Event seen through y being held in the
\* variable from: the variable that holds the Event seen through x afterwards.
\* A struct whose fields are strings is copied into x; a pointer is copied as
\* a pointer, and a struct with a field of another type would share that field.
Assign(t, x, from) ==
    IF t = "Event" /\ \A f \in DOMAIN EventFields : EventFields[f] = "string"
    THEN x ELSE from

\* The variable that holds the Event seen through element i of a returned
\* slice, which the loop took from the key k of the map: event is assigned the
\* element of the map by the range clause, and append(events, event) assigns
\* event to the next element of the slice (sortEvents swaps elements of the
\* slice by the same assignments).
ElemRef(i, k) == Assign(ElemType, SliceElem(i), Assign(ElemType, RangeVar, MapElem(k)))

\* the map after e is assigned through the variable ref
WriteAt(m, ref, e) ==
    IF ref.var = "r.events" /\ ref.at \in DOMAIN m THEN [m EXCEPT ![ref.at] = e] ELSE m

\* the events a caller can make of e by assigning to one field
Assigned(e) ==
    { [e EXCEPT !.ID = v] : v \in IDs } \cup { [e EXCEPT !.UserID = v] : v \in Users }
    \cup { [e EXCEPT !.Date = v] : v \in Dates } \cup { [e EXCEPT !.Title = v] : v \in Titles }

\* the calls of the caller that writes to the results: creates and queries
AliasCalls == { c \in Calls : c.op \in {"Create"} \cup Queries }

\* the caller calls a method; the history of the last result it changed goes
\* with the call
AliasEnter ==
    /\ Enter(Main, { c @@ [last |-> Last] : c \in AliasCalls }, {FALSE})
    /\ pre' = events
    /\ UNCHANGED << ncalls, fresh, seen, gone, upd, app >>

\* the result r of a query with its slice s changed by the caller; orig keeps
\* the slice as the query returned it
CallerChange(r, s, how) ==
    [err |-> ErrNil, events |-> s, isNil |-> r.isNil, changed |-> how, orig |-> r.events]

\* events[i].Field = v by the caller of a query, on the slice it was returned:
\* the Event assigned to is the one seen through element i, taken from the key
\* of the map under which the event is stored, its ID
CallerWrite(p) ==
    /\ pc[p] = "done" /\ call[p].op \in Queries /\ res[p].err = ErrNil
    /\ "changed" \notin DOMAIN res[p]
    /\ \E i \in DOMAIN res[p].events : \E e \in Assigned(res[p].events[i]) \ {res[p].events[i]} :
        /\ res' = [res EXCEPT ![p] =
                      CallerChange(res[p], [res[p].events EXCEPT ![i] = e], "write")]
        /\ events' = WriteAt(events, ElemRef(i, res[p].events[i].ID), e)
    /\ UNCHANGED << mu, pc, call, loc >>

\* the caller of a query swaps the ends of the returned slice or cuts its
\* tail: the swap assigns to the elements of the slice themselves (values of
\* the element type, not what they may point to), the cut to the caller's own
\* slice variable
CallerReslice(p) ==
    /\ pc[p] = "done" /\ call[p].op \in Queries /\ res[p].err = ErrNil
    /\ "changed" \notin DOMAIN res[p]
    /\ Len(res[p].events) > 0
    /\ \E s \in { [i \in DOMAIN res[p].events |-> res[p].events[Len(res[p].events) + 1 - i]],
                   SubSeq(res[p].events, 1, Len(res[p].events) - 1) } \ {res[p].events} :
        /\ res' = [res EXCEPT ![p] = CallerChange(res[p], s, "reslice")]
        /\ events' = IF Len(s) = Len(res[p].events)
                     THEN WriteAt(WriteAt(events, SliceElem(1), s[1]), SliceElem(Len(s)), s[Len(s)])
                     ELSE events
    /\ UNCHANGED << mu, pc, call, loc >>

\* the caller is done with the result; the history keeps the query whose
\* result the caller changed, the slice as the query returned it, and the
\* users of the events created since
AliasReturn ==
    /\ pc[Main] = "done"
    /\ pc' = [pc EXCEPT ![Main] = "idle"]
    /\ res' = [res EXCEPT ![Main] = NoRes]
    /\ call' = [call EXCEPT ![Main] =
                   [op |-> "none",
                    last |-> IF res[Main].err # ErrNil THEN Last
                             ELSE IF call[Main].op \in Queries
                             THEN IF "changed" \in DOMAIN res[Main]
                                  THEN [q |-> QueryOf(call[Main]), events |-> res[Main].orig,
                                        users |-> {}, how |-> res[Main].changed]
                                  ELSE NoLast
                             ELSE [Last EXCEPT !.users = @ \cup Touched]]]
    /\ pre' = << >>
    /\ UNCHANGED << events, mu, loc, ncalls, fresh, seen, gone, upd, app >>

AliasNext ==
    \/ AliasEnter
    \/ Lock(Main) /\ UNCHANGED hist
    \/ RLock(Main) /\ UNCHANGED hist
    \/ Check(Main) /\ UNCHANGED hist
    \/ Write(Main) /\ UNCHANGED hist
    \/ Scan(Main) /\ UNCHANGED hist
    \/ Sort(Main) /\ UNCHANGED hist
    \/ Unlock(Main) /\ UNCHANGED hist
    \/ CallerWrite(Main) /\ UNCHANGED hist
    \/ CallerReslice(Main) /\ UNCHANGED hist
    \/ AliasReturn

SpecAlias == Init /\ [][AliasNext]_vars

(***************************************************************************)
(* One caller of the use case and of the store, any sequence of calls with *)
(* any arguments, valid or not, and any context.                           *)
(***************************************************************************)
\* the contexts a call can find at its check of ctx.Err(): a context cancelled
\* when the call was made is cancelled, another one may have been cancelled since
CtxAtCheck(b) == IF b THEN {TRUE} ELSE BOOLEAN

\* the lone caller calls a method of the use case
UCSeqEnter ==
    /\ \E b \in BOOLEAN : UCEnter(Main, WithCtx(UCCalls, b), CtxAtCheck(b))
    /\ pre' = events
    /\ UNCHANGED << ncalls, fresh, seen, gone, upd, app >>

\* the lone caller calls a method of the store
RepoSeqEnter ==
    /\ \E b \in BOOLEAN : Enter(Main, WithCtx(Calls, b), CtxAtCheck(b))
    /\ pre' = events
    /\ UNCHANGED << ncalls, fresh, seen, gone, upd, app >>

UCSeqReturn ==
    /\ Return(Main)
    /\ pre' = << >>
    /\ UNCHANGED << ncalls, fresh, seen, gone, upd, app >>

UCNext ==
    \/ UCSeqEnter
    \/ RepoSeqEnter
    \/ Delegate(Main, BOOLEAN) /\ UNCHANGED hist
    \/ Lock(Main) /\ UNCHANGED hist
    \/ RLock(Main) /\ UNCHANGED hist
    \/ Check(Main) /\ UNCHANGED hist
    \/ Write(Main) /\ UNCHANGED hist
    \/ Scan(Main) /\ UNCHANGED hist
    \/ Sort(Main) /\ UNCHANGED hist
    \/ Unlock(Main) /\ UNCHANGED hist
    \/ UCSeqReturn

SpecUC == Init /\ [][UCNext]_vars

(***************************************************************************)
(* One caller of the use case whose context is cancelled during the call.  *)
(***************************************************************************)
\* the lone caller calls a method of the use case with a context, cancelled or
\* not, which the method checks at once
CancelEnter ==
    /\ \E b \in BOOLEAN : UCEnter(Main, WithCtx(UCCalls, b), {b})
    /\ pre' = events
    /\ UNCHANGED << ncalls, fresh, seen, gone, upd, app >>

\* cancel() of the context of the call in progress; `at` keeps where the call
\* was: "repo" is after the check of the use case and before the one of the store
Cancel(p) ==
    /\ pc[p] \notin {"idle", "done"}
    /\ ~call[p].ctx
    /\ call' = [call EXCEPT ![p] = [call[p] EXCEPT !.ctx = TRUE] @@ [at |-> pc[p]]]
    /\ UNCHANGED << events, mu, pc, loc, res >>

CancelNext ==
    \/ CancelEnter
    \/ Cancel(Main) /\ UNCHANGED hist
    \/ Delegate(Main, {call[Main].ctx}) /\ UNCHANGED hist
    \/ Lock(Main) /\ UNCHANGED hist
    \/ RLock(Main) /\ UNCHANGED hist
    \/ Check(Main) /\ UNCHANGED hist
    \/ Write(Main) /\ UNCHANGED hist
    \/ Scan(Main) /\ UNCHANGED hist
    \/ Sort(Main) /\ UNCHANGED hist
    \/ Unlock(Main) /\ UNCHANGED hist
    \/ UCSeqReturn

SpecCancel == Init /\ [][CancelNext]_vars

(***************************************************************************)
(* The HTTP server: router, handlers and the responses they write.         *)
(***************************************************************************)
\* net/http status codes
StatusOK == 200
StatusNoContent == 204
StatusBadRequest == 400
StatusNotFound == 404
StatusMethodNotAllowed == 405
StatusConflict == 409
StatusInternalServerError == 500
StatusServiceUnavailable == 503

\* the errors of the handlers themselves
ErrInvalidJSON == "invalid JSON format"
ErrMissingParameters == "missing required parameters"
ErrUnsupportedMedia == "unsupported media type"

\* the paths the router registers, each with its method and its handler
Routes ==
    { [path |-> "/create_event", method |-> "POST", handler |-> "CreateEvent"],
      [path |-> "/update_event", method |-> "POST", handler |-> "UpdateEvent"],
      [path |-> "/delete_event", method |-> "POST", handler |-> "DeleteEvent"],
      [path |-> "/events_for_day", method |-> "GET", handler |-> "EventsForDay"],
      [path |-> "/events_for_week", method |-> "GET", handler |-> "EventsForWeek"],
      [path |-> "/events_for_month", method |-> "GET", handler |-> "EventsForMonth"] }

\* NewRouter: the handlers a request passes, the outermost first
NewRouter == << "LoggingMiddleware", "mux" >>

\* the headers the CORS middleware sets
CORSHeaders ==
    { "Access-Control-Allow-Origin", "Access-Control-Allow-Methods",
      "Access-Control-Allow-Headers", "Access-Control-Allow-Credentials" }

APIPaths == { r.path : r \in Routes }

\* the JSON objects of the request bodies: events, valid or not, an object
\* with an id only, and {}
JSONObjects ==
    { [id |-> e.ID, user_id |-> e.UserID, date |-> e.Date, title |-> e.Title] :
        e \in ConcUCEvents \cup { [ID |-> "b", UserID |-> "user-1",
                                   Date |-> DateStr(2025, 1, 15), Title |-> << 66 >>] } }
    \cup { [id |-> "a"], << >> }

\* the top-level items a body is made of: a JSON object, a JSON array, and
\* text that is no JSON
JSONItems ==
    [json : {"object"}, fields : JSONObjects] \cup { [json |-> "array"], [json |-> "invalid"] }

\* request bodies: empty, one item, and an object with text that is no JSON
\* after it
Bodies ==
    { << >> } \cup { << i >> : i \in JSONItems }
    \cup { << [json |-> "object", fields |-> o], [json |-> "invalid"] >> : o \in JSONObjects }

ContentTypes == { "application/json", "application/json; charset=utf-8", "text/plain", "" }

\* the query strings: user_id and date, each given or not, empty or not
QueryStrings ==
    { << >> } \cup [user_id : {"user-1", ""}] \cup [date : {DateStr(2025, 1, 15), << >>}]
    \cup [user_id : {"user-1", ""}, date : {DateStr(2025, 1, 15), DateStr(2025, 13, 1), << >>}]

\* the requests
Requests ==
    [method : {"POST"}, path : APIPaths \cup {"/"}, ctype : ContentTypes, body : Bodies]
    \cup [method : {"GET"}, path : APIPaths \cup {"/"}, query : QueryStrings]
    \cup [method : {"OPTIONS", "PUT"}, path : APIPaths \cup {"/"}]

\* a body is valid JSON when it is one JSON value and nothing else
ValidJSON(body) == Len(body) = 1 /\ body[1].json # "invalid"

\* json.NewDecoder(r.Body).Decode(&v), v a struct: reads the first value of the
\* body and no further; io.EOF for an empty body, a SyntaxError for text that
\* is no JSON, an UnmarshalTypeError for an array
Decode(body) ==
    IF body = << >> THEN [err |-> "EOF"]
    ELSE IF body[1].json = "invalid" THEN [err |-> "invalid character"]
    ELSE IF body[1].json = "array" THEN [err |-> "json: cannot unmarshal array"]
    ELSE [err |-> ErrNil, fields |-> body[1].fields]

\* the field of the struct tagged k after Decode: the member of the object,
\* the zero value when the object has none
Field(o, k, zero) == IF k \in DOMAIN o THEN o[k] ELSE zero

\* var event domain.Event after Decode
DecodeEvent(o) ==
    [ID |-> Field(o, "id", ""), UserID |-> Field(o, "user_id", ""),
     Date |-> Field(o, "date", << >>), Title |-> Field(o, "title", << >>)]

\* r.URL.Query().Get(k): "" for a parameter that is not given
Get(q, k, zero) == IF k \in DOMAIN q THEN q[k] ELSE zero

\* http.ServeMux: the handler registered for the method and the path of r;
\* 405 when the path is registered for another method, 404 for another path
Mux(r) ==
    IF \E t \in Routes : t.path = r.path /\ t.method = r.method
    THEN (CHOOSE t \in Routes : t.path = r.path /\ t.method = r.method).handler
    ELSE IF r.path \in APIPaths THEN "405" ELSE "404"

\* h.writeError(w, errorMsg, statusCode)
writeError(errorMsg, statusCode) ==
    [status |-> statusCode, header |-> {"Content-Type"}, body |-> [error |-> errorMsg]]

\* h.writeResponse(w, Response{Result: result})
writeResponse(result) ==
    [status |-> StatusOK, header |-> {"Content-Type"}, body |-> [result |-> result]]

\* faulty variant: an event that is not found is answered with 404
handleCalendarError_NotFound404(err) ==
    IF err = ErrEventNotFound THEN writeError(err, StatusNotFound)
    ELSE IF err \in {ErrInvalidDate, ErrEmptyEventID, ErrEmptyUserID, ErrEmptyTitle}
    THEN writeError(err, StatusBadRequest)
    ELSE IF err = ErrEventConflict THEN writeError(err, StatusConflict)
    ELSE writeError("internal server error", StatusInternalServerError)

\* h.handleCalendarError(w, err)
handleCalendarError(err) ==
    IF err = ErrEventNotFound THEN writeError(err, StatusServiceUnavailable)
    ELSE IF err \in {ErrInvalidDate, ErrEmptyEventID, ErrEmptyUserID, ErrEmptyTitle}
    THEN writeError(err, StatusBadRequest)
    ELSE IF err = ErrEventConflict THEN writeError(err, StatusConflict)
    ELSE writeError("internal server error", StatusInternalServerError)

PostHandlers == { "CreateEvent", "UpdateEvent", "DeleteEvent" }

NoResponse == [status |-> "none"]

\* faulty variant: the query handlers pass empty parameters on to the use case
HandlerCheck_NoParams(h, r) ==
    IF h \in PostHandlers
    THEN IF r.ctype # "application/json" THEN writeError(ErrUnsupportedMedia, StatusBadRequest)
         ELSE IF Decode(r.body).err # ErrNil THEN writeError(ErrInvalidJSON, StatusBadRequest)
         ELSE NoResponse
    ELSE NoResponse

\* what the handler h answers to r before it calls the use case, if it does:
\* the check of the Content-Type and of the body, or of the query parameters
HandlerCheck(h, r) ==
    IF h \in PostHandlers
    THEN IF r.ctype # "application/json" THEN writeError(ErrUnsupportedMedia, StatusBadRequest)
         ELSE IF Decode(r.body).err # ErrNil THEN writeError(ErrInvalidJSON, StatusBadRequest)
         ELSE NoResponse
    ELSE IF Get(r.query, "user_id", "") = "" \/ Get(r.query, "date", << >>) = << >>
    THEN writeError(ErrMissingParameters, StatusBadRequest)
    ELSE NoResponse

\* the call of the use case the handler h makes for r
UCCallOf(h, r) ==
    IF h \in {"CreateEvent", "UpdateEvent"}
    THEN [op |-> h, event |-> DecodeEvent(Decode(r.body).fields)]
    ELSE IF h = "DeleteEvent"
    THEN [op |-> h, eventID |-> Field(Decode(r.body).fields, "id", "")]
    ELSE [op |-> CASE h = "EventsForDay" -> "GetEventsForDay"
                   [] h = "EventsForWeek" -> "GetEventsForWeek"
                   [] h = "EventsForMonth" -> "GetEventsForMonth",
          userID |-> Get(r.query, "user_id", ""), date |-> Get(r.query, "date", << >>)]

\* the value of Response.Result after the call c of the use case returned r
ResultOf(c, r) ==
    CASE UCOfCall(c) = "CreateEvent" -> "event created"
      [] UCOfCall(c) = "UpdateEvent" -> "event updated"
      [] UCOfCall(c) = "DeleteEvent" -> "event deleted"
      [] OTHER -> EncodeResult(r)

\* the CORS middleware, where the router installs it: its headers on every
\* response
RouterHeaders == IF \E i \in DOMAIN NewRouter : NewRouter[i] = "CORS" THEN CORSHeaders ELSE {}

\* the response w as the client gets it
Sent(w) == [w EXCEPT !.header = @ \cup RouterHeaders]

\* the headers http.Error sets, with which the mux answers 404 and 405
ErrorHeaders == { "Content-Type", "X-Content-Type-Options" }

\* what the server answers to r without a call of the use case, if it does:
\* the CORS middleware answers OPTIONS itself, the mux answers a path or a
\* method it has no handler for, the handler checks the request
Early(r) ==
    IF r.method = "OPTIONS" /\ \E i \in DOMAIN NewRouter : NewRouter[i] = "CORS"
    THEN [status |-> StatusNoContent, header |-> {}, body |-> << >>]
    ELSE IF Mux(r) = "404"
    THEN [status |-> StatusNotFound, header |-> ErrorHeaders,
          body |-> [text |-> "404 page not found"]]
    ELSE IF Mux(r) = "405"
    THEN [status |-> StatusMethodNotAllowed, header |-> {"Allow"} \cup ErrorHeaders,
          body |-> [text |-> "Method Not Allowed"]]
    ELSE HandlerCheck(Mux(r), r)

\* The server handles the request r whose context is cancelled (b) or not: it
\* answers at once, or the handler calls the use case.
Serve(p, reqs, ctxs) ==
    /\ pc[p] = "idle"
    /\ \E r \in reqs, b \in ctxs :
        IF Early(r) # NoResponse
        THEN /\ call' = [call EXCEPT ![p] = [op |-> "none", req |-> r, ctx |-> b]]
             /\ res' = [res EXCEPT ![p] = Sent(Early(r))]
             /\ pc' = [pc EXCEPT ![p] = "replied"]
             /\ UNCHANGED << events, mu, loc >>
        ELSE UCEnter(p, { UCCallOf(Mux(r), r) @@ [req |-> r, ctx |-> b] }, {b})

\* the use case has returned to the handler, which writes the response; err
\* keeps what the use case returned
Reply(p) ==
    /\ pc[p] = "done"
    /\ res' = [res EXCEPT ![p] =
                  Sent(IF res[p].err # ErrNil THEN handleCalendarError(res[p].err)
                       ELSE writeResponse(ResultOf(call[p], res[p])))
                  @@ [err |-> res[p].err]]
    /\ pc' = [pc EXCEPT ![p] = "replied"]
    /\ UNCHANGED << events, mu, call, loc >>

HTTPEnter ==
    /\ Serve(Main, Requests, BOOLEAN)
    /\ pre' = events
    /\ UNCHANGED << ncalls, fresh, seen, gone, upd, app >>

\* the response is with the client
HTTPReturn ==
    /\ pc[Main] = "replied"
    /\ pc' = [pc EXCEPT ![Main] = "idle"]
    /\ call' = [call EXCEPT ![Main] = NoCall]
    /\ res' = [res EXCEPT ![Main] = NoRes]
    /\ pre' = << >>
    /\ UNCHANGED << events, mu, loc, ncalls, fresh, seen, gone, upd, app >>

HTTPNext ==
    \/ HTTPEnter
    \/ Delegate(Main, {call[Main].ctx}) /\ UNCHANGED hist
    \/ Lock(Main) /\ UNCHANGED hist
    \/ RLock(Main) /\ UNCHANGED hist
    \/ Check(Main) /\ UNCHANGED hist
    \/ Write(Main) /\ UNCHANGED hist
    \/ Scan(Main) /\ UNCHANGED hist
    \/ Sort(Main) /\ UNCHANGED hist
    \/ Unlock(Main) /\ UNCHANGED hist
    \/ Reply(Main) /\ UNCHANGED hist
    \/ HTTPReturn

SpecHTTP == Init /\ [][HTTPNext]_vars

(***************************************************************************)
(* App.Run: the goroutine of handleSignals, the goroutine of               *)
(* ListenAndServe, and the select of Run.                                  *)
(***************************************************************************)
\* the signals handleSignals asks for
Signals == { "SIGINT", "SIGTERM" }

ErrServerClosed == "http: Server closed"

\* what ListenAndServe returns when it fails: the port is taken, or Accept fails
ListenErrs == { "listen tcp: address already in use", "accept tcp: too many open files" }

\* what Shutdown returns: nil, or the error of the 10 s context
ShutdownErrs == { ErrNil, "context deadline exceeded" }

\* the store and its callers, which Run does not touch
rest == << events, mu, pc, call, loc, res, ncalls, pre, fresh, seen, gone, upd >>

\* the process runs: Run has not returned (main ends when it does) and no
\* signal has ended the process
Alive(a) == a.run \notin {"returned", "killed"}

\* signal.Notify(sigChan, syscall.SIGINT, syscall.SIGTERM)
Notify ==
    /\ Alive(app) /\ app.hs = "notify"
    /\ app' = [app EXCEPT !.hs = "wait"]
    /\ UNCHANGED rest

\* the process receives SIGINT or SIGTERM. Before signal.Notify has run in the
\* goroutine of handleSignals the Go runtime ends the process: nothing more
\* runs, no Shutdown is called and Run does not return. After it os/signal
\* puts the signal in sigChan when there is room.
Signal ==
    /\ Alive(app)
    /\ \E s \in Signals :
        app' = IF app.hs = "notify"
               THEN [app EXCEPT !.run = "killed",
                                !.sig = s,
                                !.first = IF @ = "none" THEN "signal" ELSE @]
               ELSE [app EXCEPT !.sigChan = IF Len(@) = 0 THEN << s >> ELSE @,
                                !.sig = s,
                                !.first = IF @ = "none" THEN "signal" ELSE @]
    /\ UNCHANGED rest

\* sig := <-sigChan; cancel()
HandleSignal ==
    /\ Alive(app) /\ app.hs = "wait" /\ Len(app.sigChan) > 0
    /\ app' = [app EXCEPT !.sigChan = Tail(@), !.ctx = TRUE, !.hs = "done"]
    /\ UNCHANGED rest

\* if err := a.server.ListenAndServe(); err != nil && err != http.ErrServerClosed
\* { serverErr <- err }
ListenSend(err) == IF err # ErrNil /\ err # ErrServerClosed THEN << err >> ELSE << >>

\* what ListenAndServe may return: an error of the listener, and, once the
\* select of Run has chosen ctx.Done, ErrServerClosed as well. Shutdown is
\* called some statements after the select, and ListenAndServe looks at
\* shuttingDown() before net.Listen, so the listener can still fail then.
ListenReturns(a) == ListenErrs \cup (IF a.shut = "none" THEN {} ELSE {ErrServerClosed})

\* ListenAndServe returns, and the goroutine sends the error to serverErr
\* unless it is ErrServerClosed (the channel has room for the one send)
ListenReturn ==
    /\ Alive(app) /\ app.srv = "serving"
    /\ \E err \in ListenReturns(app) :
        app' = [app EXCEPT !.srv = IF err = ErrServerClosed THEN "closed" ELSE "failed",
                           !.serverErr = @ \o ListenSend(err),
                           !.first = IF @ = "none" /\ err # ErrServerClosed THEN "listen" ELSE @]
    /\ UNCHANGED rest

\* the cases of the select of Run that can proceed
Ready(a) ==
    (IF Len(a.serverErr) > 0 THEN {"serverErr"} ELSE {})
    \cup (IF a.ctx THEN {"ctx.Done"} ELSE {})

\* select { case err := <-serverErr: return err; case <-ctx.Done(): ... }: one
\* of the cases that can proceed, whichever
RunSelect ==
    /\ app.run = "select"
    /\ \E c \in Ready(app) :
        app' = IF c = "serverErr"
               THEN [app EXCEPT !.serverErr = Tail(@), !.ret = Head(app.serverErr),
                                !.run = "returned", !.ctx = TRUE,
                                !.ready = Ready(app), !.chose = c]
               ELSE [app EXCEPT !.run = "shutdown", !.shut = "begun",
                                !.ready = Ready(app), !.chose = c]
    /\ UNCHANGED rest

\* faulty variant: Run returns nil whatever Shutdown returned
AfterShutdown_Swallow(err) == ErrNil

\* if err := a.server.Shutdown(shutdownCtx); err != nil { return err }; return nil
AfterShutdown(err) == IF err # ErrNil THEN err ELSE ErrNil

\* a.server.Shutdown(shutdownCtx) returns and Run returns
RunShutdown ==
    /\ app.run = "shutdown"
    /\ \E err \in ShutdownErrs :
        app' = [app EXCEPT !.shut = IF err = ErrNil THEN "completed" ELSE err,
                           !.ret = AfterShutdown(err), !.run = "returned"]
    /\ UNCHANGED rest

RunNext ==
    \/ Notify
    \/ Signal
    \/ HandleSignal
    \/ ListenReturn
    \/ RunSelect
    \/ RunShutdown

SpecRun == Init /\ [][RunNext]_vars

\* the goroutines of Run are scheduled: none is held back for ever at a step
\* it can take
SpecRunFair ==
    /\ SpecRun
    /\ WF_vars(Notify) /\ WF_vars(HandleSignal) /\ WF_vars(RunSelect) /\ WF_vars(RunShutdown)

(***************************************************************************)
(* Concurrent callers of the use case of one store.                        *)
(***************************************************************************)
\* a call of the concurrent callers of the use case, with a live context
ConcUCEnter(p) ==
    /\ ncalls < MaxCalls
    /\ ncalls' = ncalls + 1
    /\ UCEnter(p, WithCtx(ConcUCCalls, FALSE), {FALSE})
    /\ UNCHANGED << pre, fresh, seen, gone, upd, app >>

UCCNext ==
    \E p \in Procs :
        \/ ConcUCEnter(p)
        \/ Delegate(p, {FALSE}) /\ UNCHANGED hist
        \/ Lock(p) /\ UNCHANGED hist
        \/ RLock(p) /\ UNCHANGED hist
        \/ Check(p) /\ UNCHANGED hist
        \/ Write(p) /\ UNCHANGED hist
        \/ Scan(p) /\ UNCHANGED hist
        \/ Sort(p) /\ UNCHANGED hist
        \/ Unlock(p) /\ UNCHANGED hist
        \/ Return(p) /\ UNCHANGED hist

SpecUCC == Init /\ [][UCCNext]_vars

(***************************************************************************)
(* Properties.                                                             *)
(***************************************************************************)
\* the lone caller's call of op has returned, with a context that was not cancelled
Did(op) == pc[Main] = "done" /\ call[Main].op = op /\ res[Main].err # ErrCanceled

\* map m is map n with exactly the entry of id set to event e
IsPut(m, n, id, e) ==
    /\ DOMAIN m = DOMAIN n \cup {id}
    /\ m[id] = e
    /\ \A k \in DOMAIN n \ {id} : m[k] = n[k]

\* map m is map n without exactly the entry of id
IsRemove(m, n, id) ==
    /\ DOMAIN m = DOMAIN n \ {id}
    /\ \A k \in DOMAIN m : m[k] = n[k]

\* the events of a query's result
Returns(r) == { r.events[i] : i \in DOMAIN r.events }

\* C1: the store holds at most one event per id (the event stored under a key
\* carries that key as its id), a Create of an id the store lacks inserts the
\* event and returns nil, and a Create of an id the store holds returns
\* ErrEventConflict and changes nothing; so of two Creates of one id in
\* sequence the first returns nil and the second ErrEventConflict.
C1_CreateUnique ==
    /\ \A k \in DOMAIN events : events[k].ID = k
    /\ \A id \in IDs : Cardinality({ e \in Range(events) : e.ID = id }) <= 1
    /\ Did("Create") =>
        LET e == call[Main].event
        IN  IF e.ID \in DOMAIN pre
            THEN res[Main].err = ErrEventConflict /\ events = pre
            ELSE res[Main].err = ErrNil /\ IsPut(events, pre, e.ID, e)

\* a Create of an id that an earlier Create inserted has returned ErrEventConflict
C1_Witness ==
    /\ Did("Create")
    /\ res[Main].err = ErrEventConflict
    /\ events[call[Main].event.ID] # call[Main].event

\* C2: when two or more goroutines call Create with events of one id on a store
\* that lacks it, then, once all have returned, exactly one has nil, the
\* others have ErrEventConflict, and the store holds the event of the one.
C2_OneCreateWins ==
    (\A p \in Procs : pc[p] = "done") =>
        \A id \in GoIDs :
            LET same == { p \in Procs : call[p].event.ID = id }
                won  == { p \in same : res[p].err = ErrNil }
            IN  Cardinality(same) >= 2 =>
                    /\ Cardinality(won) = 1
                    /\ \A p \in same \ won : res[p].err = ErrEventConflict
                    /\ \A p \in won : id \in DOMAIN events /\ events[id] = call[p].event

\* all goroutines created one id with different events, and all have returned
C2_Witness ==
    /\ \A p \in Procs : pc[p] = "done"
    /\ \A p, q \in Procs : call[p].event.ID = call[q].event.ID
    /\ \E p, q \in Procs : call[p].event # call[q].event /\ res[p].err = ErrEventConflict

\* the goroutines that have called Create did so with pairwise distinct ids
DistinctIDs ==
    \A p, q \in Procs :
        (p # q /\ pc[p] # "idle" /\ pc[q] # "idle") => call[p].event.ID # call[q].event.ID

\* C3: Creates of pairwise distinct ids by concurrent goroutines all return nil,
\* and the day query made after all of them returned holds every one of the
\* events.
C3_NoLostCreate ==
    DistinctIDs =>
        /\ \A p \in Procs : pc[p] = "done" => res[p].err = ErrNil
        /\ pc[Main] = "done" =>
            /\ res[Main].err = ErrNil
            /\ Len(res[Main].events) = NumProcs
            /\ Returns(res[Main]) = { call[p].event : p \in Procs }

\* the query after NumProcs Creates of distinct ids has returned
C3_Witness ==
    /\ DistinctIDs
    /\ pc[Main] = "done"
    /\ Cardinality({ call[p].event.ID : p \in Procs }) = NumProcs
    /\ Len(res[Main].events) = NumProcs

\* goroutine p is between the return of Lock or RLock and the deferred unlock
Inside(p) == pc[p] \in {"check", "write", "scan", "unlock"}

\* C4: while a Create, Update or Delete is inside its critical section no
\* other call is inside its own (two queries may be: see the witness); the
\* mutex counts who is inside.
C4_WriterAlone ==
    /\ \A p, q \in Procs :
        (p # q /\ Inside(p) /\ call[p].op \in Mutations) => ~Inside(q)
    /\ mu.w = (\E p \in Procs : Inside(p) /\ call[p].op \in Mutations)
    /\ mu.r = Cardinality({ p \in Procs : Inside(p) /\ call[p].op \in Queries })

\* two different queries are inside their critical sections at once
C4_Witness ==
    \E p, q \in Procs :
        /\ p # q
        /\ pc[p] = "scan" /\ pc[q] = "scan"
        /\ call[p].op # call[q].op
        /\ mu.r = 2

\* C5: a query returns every event that matches it and whose Create had
\* returned nil before the query was called, unless an Update or Delete of
\* that id took effect between that Create and the query's read of the map.
C5_CreateVisible ==
    \A p \in Procs :
        (pc[p] \in {"unlock", "done"} /\ call[p].op \in Queries /\ res[p].err = ErrNil) =>
            \A e \in seen[p] : Matches(call[p], e) => e \in Returns(res[p])

\* a query called after a Create returned has returned the created event, while
\* the other goroutine was writing
C5_Witness ==
    \E p, q \in Procs :
        /\ pc[p] = "done" /\ call[p].op \in Queries /\ res[p].err = ErrNil
        /\ seen[p] # {}
        /\ seen[p] \subseteq Returns(res[p])
        /\ pc[q] = "write"

\* C6: an Update of an id the store lacks returns ErrEventNotFound and leaves the
\* store as it was; no id is inserted.
C6_UpdateAbsent ==
    (Did("Update") /\ call[Main].event.ID \notin DOMAIN pre) =>
        /\ res[Main].err = ErrEventNotFound
        /\ events = pre
        /\ call[Main].event.ID \notin DOMAIN events

\* an Update of a deleted id has returned ErrEventNotFound on a store that holds
\* another event
C6_Witness ==
    /\ Did("Update")
    /\ res[Main].err = ErrEventNotFound
    /\ call[Main].event.ID \in gone
    /\ events # << >>

\* query c matches the events of that user and date
SameUserDate(c, user, date) ==
    Matches(c, [ID |-> "a", UserID |-> user, Date |-> date, Title |-> << 65 >>])

\* C7: an Update of a stored id that returns nil has replaced the stored event by
\* its argument, all fields at once, and changed no other entry; the queries
\* after it return the argument exactly when it matches them, and return no
\* other event of that id, so none for the user or date it had before.
C7_UpdateReplaces ==
    /\ (Did("Update") /\ res[Main].err = ErrNil) =>
        /\ call[Main].event.ID \in DOMAIN pre
        /\ IsPut(events, pre, call[Main].event.ID, call[Main].event)
    /\ (upd # NoUpd /\ pc[Main] = "done" /\ call[Main].op \in Queries
            /\ res[Main].err = ErrNil) =>
        /\ Matches(call[Main], upd.event) <=> upd.event \in Returns(res[Main])
        /\ \A e \in Returns(res[Main]) : e.ID = upd.id => e = upd.event

\* a query for the user and date an event had before an Update moved it has
\* returned without it
C7_Witness ==
    /\ upd # NoUpd
    /\ pc[Main] = "done" /\ call[Main].op \in Queries /\ res[Main].err = ErrNil
    /\ SameUserDate(call[Main], upd.oldUser, upd.oldDate)
    /\ ~Matches(call[Main], upd.event)
    /\ \A e \in Returns(res[Main]) : e.ID # upd.id
    /\ Returns(res[Main]) # {}

\* C8: a Delete of an id the store lacks returns ErrEventNotFound and leaves the
\* store as it was; a Delete of a stored id returns nil and removes that entry
\* and no other.
C8_Delete ==
    Did("Delete") =>
        IF call[Main].eventID \in DOMAIN pre
        THEN res[Main].err = ErrNil /\ IsRemove(events, pre, call[Main].eventID)
        ELSE res[Main].err = ErrEventNotFound /\ events = pre

\* a Delete has removed one of two stored events
C8_Witness ==
    /\ Did("Delete")
    /\ res[Main].err = ErrNil
    /\ Cardinality(DOMAIN pre) = 2
    /\ Cardinality(DOMAIN events) = 1

\* C9: after a Delete of an id returned nil and until a Create of that id, no
\* query returns an event of that id, Update and Delete of it return
\* ErrEventNotFound and a Create of it returns nil.
C9_DeleteImmediate ==
    \A id \in gone :
        /\ (pc[Main] = "done" /\ call[Main].op \in Queries /\ res[Main].err = ErrNil) =>
            \A e \in Returns(res[Main]) : e.ID # id
        /\ (Did("Update") /\ call[Main].event.ID = id) => res[Main].err = ErrEventNotFound
        /\ (Did("Delete") /\ call[Main].eventID = id) => res[Main].err = ErrEventNotFound
        /\ (Did("Create") /\ call[Main].event.ID = id) =>
            res[Main].err = ErrNil /\ events[id] = call[Main].event

\* a Create of a deleted id has returned nil
C9_Witness ==
    /\ Did("Create")
    /\ call[Main].event.ID \in gone
    /\ res[Main].err = ErrNil

\* C10: GetByUserIDAndDate returns each stored event whose UserID and Date equal
\* its arguments once, and nothing else.
C10_DayExact ==
    Did("GetByUserIDAndDate") =>
        LET want == { e \in Range(pre) :
                        e.UserID = call[Main].userID /\ e.Date = call[Main].date }
        IN  /\ res[Main].err = ErrNil
            /\ Returns(res[Main]) = want
            /\ Len(res[Main].events) = Cardinality(want)
            /\ events = pre

\* a day query has returned one of two stored events of one date, the other
\* being another user's
C10_Witness ==
    /\ Did("GetByUserIDAndDate")
    /\ Len(res[Main].events) = 1
    /\ \E e \in Range(pre) :
        e.UserID # call[Main].userID /\ e.Date = call[Main].date

\* the dates s and t, both valid, lie in one Monday-to-Sunday week
SameWeek(s, t) ==
    LET a == ParseDate(s).t
        b == ParseDate(t).t
    IN  AbsDay(a) - Weekday(a) = AbsDay(b) - Weekday(b)

\* C11: GetByUserIDAndWeek with a valid date returns each stored event of the
\* user whose date lies in the Monday-to-Sunday week of that date once, and
\* nothing else, also when the week spans two years or two months; for
\* 2025-01-15 the events of 2025-01-16 are returned and those of 2025-01-22 not.
C11_WeekExact ==
    Did("GetByUserIDAndWeek") =>
        LET want == { e \in Range(pre) :
                        e.UserID = call[Main].userID /\ SameWeek(e.Date, call[Main].date) }
        IN  /\ res[Main].err = ErrNil
            /\ Returns(res[Main]) = want
            /\ Len(res[Main].events) = Cardinality(want)
            /\ call[Main].date = DateStr(2025, 1, 15) =>
                \A e \in Range(pre) :
                    e.UserID = call[Main].userID =>
                        /\ e.Date = DateStr(2025, 1, 16) => e \in Returns(res[Main])
                        /\ e.Date = DateStr(2025, 1, 22) => e \notin Returns(res[Main])

\* a week query for 2025-01-01 has returned the user's event of 2024-12-30 and
\* not the user's event of 2024-12-29
C11_Witness ==
    /\ Did("GetByUserIDAndWeek")
    /\ call[Main].date = DateStr(2025, 1, 1)
    /\ { e.Date : e \in Returns(res[Main]) } = { DateStr(2024, 12, 30) }
    /\ \E e \in Range(pre) :
        e.UserID = call[Main].userID /\ e.Date = DateStr(2024, 12, 29)

\* the first seven bytes, "YYYY-MM", of the dates s and t are equal
SameMonth(s, t) == SubSeq(s, 1, 7) = SubSeq(t, 1, 7)

\* C12: GetByUserIDAndMonth with a valid date returns each stored event of the
\* user whose date has the year and the month of that date once, and nothing
\* else; for 2025-01-15 the events of 2025-01-31 are returned and those of
\* 2025-02-01 and of 2024-01-15 not.
C12_MonthExact ==
    Did("GetByUserIDAndMonth") =>
        LET want == { e \in Range(pre) :
                        e.UserID = call[Main].userID /\ SameMonth(e.Date, call[Main].date) }
        IN  /\ res[Main].err = ErrNil
            /\ Returns(res[Main]) = want
            /\ Len(res[Main].events) = Cardinality(want)
            /\ call[Main].date = DateStr(2025, 1, 15) =>
                \A e \in Range(pre) :
                    e.UserID = call[Main].userID =>
                        /\ e.Date = DateStr(2025, 1, 31) => e \in Returns(res[Main])
                        /\ e.Date = DateStr(2025, 2, 1) => e \notin Returns(res[Main])
                        /\ e.Date = DateStr(2024, 1, 15) => e \notin Returns(res[Main])

\* a month query for 2025-01-15 has returned the user's event of 2025-01-31 and
\* not the user's event of 2024-01-15
C12_Witness ==
    /\ Did("GetByUserIDAndMonth")
    /\ call[Main].date = DateStr(2025, 1, 15)
    /\ { e.Date : e \in Returns(res[Main]) } = { DateStr(2025, 1, 31) }
    /\ \E e \in Range(pre) :
        e.UserID = call[Main].userID /\ e.Date = DateStr(2024, 1, 15)

\* the lone caller's query has returned, with a context that was not cancelled
DidQuery == pc[Main] = "done" /\ call[Main].op \in Queries /\ res[Main].err # ErrCanceled

\* C13: the result of each of the three queries is in ascending order of the
\* dates and, among equal dates, of the titles: of two adjacent events a, b
\* either a.Date < b.Date, or a.Date = b.Date and not b.Title < a.Title.
C13_Sorted ==
    DidQuery =>
        \A i \in 1..(Len(res[Main].events) - 1) :
            LET a == res[Main].events[i]
                b == res[Main].events[i + 1]
            IN  \/ StrLess(a.Date, b.Date)
                \/ a.Date = b.Date /\ ~StrLess(b.Title, a.Title)

\* a month query has returned two events of one date in the order of their titles
C13_Witness ==
    /\ Did("GetByUserIDAndMonth")
    /\ Len(res[Main].events) = 2
    /\ res[Main].events[1].Date = res[Main].events[2].Date
    /\ StrLess(res[Main].events[1].Title, res[Main].events[2].Title)

\* C14: a query that no stored event matches returns no error and an empty
\* slice that is not nil, which the handler encodes as an empty list, not as null.
C14_EmptyNotNull ==
    (DidQuery /\ \A e \in Range(pre) : ~Matches(call[Main], e)) =>
        /\ res[Main].err = ErrNil
        /\ res[Main].events = << >>
        /\ ~res[Main].isNil
        /\ EncodeResult(res[Main]) = << >>

\* the call c of the store was made by a method of the use case
Delegated(c) == "uc" \in DOMAIN c

\* the method of the use case that was called, if one was
UCOf(c) == IF Delegated(c) THEN c.uc ELSE c.op

\* the lone caller's call of a method of the use case among ops has returned,
\* and not from the check of ctx.Err() the method starts with
UCDid(ops) ==
    /\ pc[Main] = "done"
    /\ UCOf(call[Main]) \in ops
    /\ ~(res[Main].err = ErrCanceled /\ ~Delegated(call[Main]))

\* the use case has returned err to the lone caller without calling the store
Rejected(err) == res[Main].err = err /\ ~Delegated(call[Main])

\* C15: validateEvent reports the first rule broken in the order ID, UserID,
\* Title, Date: ErrEmptyEventID for an empty ID whatever the other fields, else
\* ErrEmptyUserID for an empty UserID, else ErrEmptyTitle for an empty Title,
\* else ErrInvalidDate for a Date that is not a YYYY-MM-DD date (the empty one
\* included); it returns nil, and the store is called, exactly when no rule is
\* broken.
C15_ValidateOrder ==
    UCDid(UCWrites) =>
        LET e == call[Main].event
        IN  IF e.ID = "" THEN Rejected(ErrEmptyEventID)
            ELSE IF e.UserID = "" THEN Rejected(ErrEmptyUserID)
            ELSE IF e.Title = << >> THEN Rejected(ErrEmptyTitle)
            ELSE IF e.Date \notin Dates THEN Rejected(ErrInvalidDate)
            ELSE Delegated(call[Main])

\* CreateEvent with an event whose four fields are all invalid has returned
\* ErrEmptyEventID
C15_Witness ==
    /\ UCDid({"CreateEvent"})
    /\ call[Main].event.ID = "" /\ call[Main].event.UserID = ""
    /\ call[Main].event.Title = << >> /\ call[Main].event.Date \in BadDates
    /\ res[Main].err = ErrEmptyEventID

\* C16: whatever methods of the use case concurrent callers call on a new
\* store, every stored event has a non-empty ID, UserID and Title and a Date
\* that is a YYYY-MM-DD date.
C16_StoredValid ==
    \A k \in DOMAIN events :
        /\ events[k].ID # "" /\ events[k].UserID # "" /\ events[k].Title # << >>
        /\ events[k].Date \in Dates
        /\ ParseDate(events[k].Date).ok

\* an UpdateEvent with an invalid date for a stored id has returned
\* ErrInvalidDate while another caller is writing the store
C16_Witness ==
    \E p, q \in Procs :
        /\ pc[p] = "done" /\ call[p].op = "UpdateEvent" /\ res[p].err = ErrInvalidDate
        /\ call[p].event.ID \in DOMAIN events
        /\ pc[q] = "write"

\* the event breaks a rule of the validation
Invalid(e) == e.ID = "" \/ e.UserID = "" \/ e.Title = << >> \/ e.Date \notin Dates

ValidationErrs == { ErrEmptyEventID, ErrEmptyUserID, ErrEmptyTitle, ErrInvalidDate }

\* C17: CreateEvent and UpdateEvent with an event that fails the validation
\* return the error of the validation without calling the store, which stays
\* as it was: also when the id is stored (no ErrEventConflict) and when the id
\* of an update is not stored (no ErrEventNotFound).
C17_ValidateFirst ==
    (UCDid(UCWrites) /\ Invalid(call[Main].event)) =>
        /\ res[Main].err \in ValidationErrs
        /\ ~Delegated(call[Main])
        /\ events = pre

\* CreateEvent with an invalid event of a stored id has returned an error of
\* the validation
C17_Witness ==
    /\ UCDid({"CreateEvent"})
    /\ Invalid(call[Main].event)
    /\ call[Main].event.ID \in DOMAIN events
    /\ res[Main].err \in ValidationErrs

\* C18: GetEventsForDay, GetEventsForWeek and GetEventsForMonth return
\* ErrEmptyUserID for an empty user id whatever the date, else ErrInvalidDate for
\* a date that is not a YYYY-MM-DD date, and call the store only when both
\* arguments pass.
C18_QueryValidation ==
    UCDid(UCQueries) =>
        IF call[Main].userID = "" THEN Rejected(ErrEmptyUserID)
        ELSE IF call[Main].date \notin Dates THEN Rejected(ErrInvalidDate)
        ELSE Delegated(call[Main])

\* a query of the use case with an empty user id and an invalid date has
\* returned ErrEmptyUserID
C18_Witness ==
    /\ UCDid(UCQueries)
    /\ call[Main].userID = ""
    /\ call[Main].date \in BadDates
    /\ res[Main].err = ErrEmptyUserID

\* C19: DeleteEvent with an empty id returns ErrEmptyEventID without calling the
\* store, which stays as it was; with another id it returns what Delete of the
\* store returns: ErrEventNotFound for an id that is not stored, the store
\* unchanged, and else nil, that entry removed.
C19_DeleteEvent ==
    (UCDid({"DeleteEvent"}) /\ res[Main].err # ErrCanceled) =>
        IF call[Main].eventID = ""
        THEN Rejected(ErrEmptyEventID) /\ events = pre
        ELSE /\ Delegated(call[Main])
             /\ IF call[Main].eventID \in DOMAIN pre
                THEN res[Main].err = ErrNil /\ IsRemove(events, pre, call[Main].eventID)
                ELSE res[Main].err = ErrEventNotFound /\ events = pre

\* DeleteEvent with an empty id has returned ErrEmptyEventID on a store that
\* holds events
C19_Witness ==
    /\ UCDid({"DeleteEvent"})
    /\ call[Main].eventID = ""
    /\ res[Main].err = ErrEmptyEventID
    /\ events # << >>

\* C20: a method of the use case or of the store that is called with a
\* context already cancelled returns the error of the context, and the store
\* stays as it was.
C20_Cancelled ==
    (pc[Main] = "done" /\ call[Main].ctx) =>
        /\ res[Main].err = ErrCanceled
        /\ events = pre
        /\ ~Delegated(call[Main])

\* an update, by the use case or by the store, of a stored event has returned
\* the error of the cancelled context and the stored event is the one of before
C20_Witness ==
    /\ pc[Main] = "done" /\ call[Main].ctx
    /\ call[Main].op \in {"UpdateEvent", "Update"}
    /\ ~Invalid(call[Main].event)
    /\ call[Main].event.ID \in DOMAIN events
    /\ events[call[Main].event.ID] # call[Main].event
    /\ res[Main].err = ErrCanceled

\* the methods of the use case and of the store that write the store
Writers == Mutations \cup UCWrites \cup {"DeleteEvent"}

\* the id the lone caller's create, update or delete is about
MainID == IF call[Main].op \in {"Delete", "DeleteEvent"} THEN call[Main].eventID
          ELSE call[Main].event.ID

\* C21: a create, update or delete, of the use case or of the store, that
\* returns an error (ErrEventConflict, ErrEventNotFound, an error of the
\* validation or the error of the context) leaves the store as it was; after
\* ErrEventConflict the event stored under the id is the one of before.
C21_AllOrNothing ==
    (pc[Main] = "done" /\ call[Main].op \in Writers /\ res[Main].err # ErrNil) =>
        /\ events = pre
        /\ res[Main].err = ErrEventConflict =>
            /\ MainID \in DOMAIN events
            /\ events[MainID] = pre[MainID]

\* a create of a stored id with another user, date and title has returned
\* ErrEventConflict
C21_Witness ==
    /\ pc[Main] = "done" /\ call[Main].op = "Create"
    /\ res[Main].err = ErrEventConflict
    /\ events[MainID].UserID # call[Main].event.UserID
    /\ events[MainID].Date # call[Main].event.Date
    /\ events[MainID].Title # call[Main].event.Title

\* the arguments of the lone caller's call of the use case fail its validation
BadArgs ==
    IF call[Main].op \in UCWrites THEN Invalid(call[Main].event)
    ELSE IF call[Main].op = "DeleteEvent" THEN call[Main].eventID = ""
    ELSE call[Main].userID = "" \/ call[Main].date \notin Dates

\* C28: a method of the use case called with a context already cancelled and
\* with arguments that fail the validation returns the error of the context,
\* not an error of the validation.
C28_CancelBeforeValidate ==
    (pc[Main] = "done" /\ call[Main].op \in UCWrites \cup {"DeleteEvent"} \cup UCQueries
        /\ call[Main].ctx /\ BadArgs) =>
            /\ res[Main].err = ErrCanceled
            /\ res[Main].err \notin ValidationErrs

\* CreateEvent with a cancelled context and an event whose four fields are
\* all invalid has returned the error of the context
C28_Witness ==
    /\ pc[Main] = "done" /\ call[Main].op = "CreateEvent" /\ call[Main].ctx
    /\ call[Main].event.ID = "" /\ call[Main].event.UserID = ""
    /\ call[Main].event.Title = << >> /\ call[Main].event.Date \in BadDates
    /\ res[Main].err = ErrCanceled

\* C30: under every interleaving with creates, updates and deletes, what a
\* query has collected and returns is taken from the store of one instant:
\* while the query holds the read lock the store does not change, the events
\* collected are the matching ones among the keys visited, and at the end of
\* the critical section the result is exactly the matching events of the store
\* of that moment, each once, in order.
C30_Snapshot ==
    \A p \in Procs :
        /\ pc[p] = "scan" =>
            /\ loc[p].todo \subseteq DOMAIN events
            /\ loc[p].events =
                { e \in Range(events) : e.ID \notin loc[p].todo /\ Matches(call[p], e) }
        /\ (pc[p] = "unlock" /\ call[p].op \in Queries) =>
            /\ Returns(res[p]) = { e \in Range(events) : Matches(call[p], e) }
            /\ Len(res[p].events) = Cardinality(Returns(res[p]))
            /\ \A i, j \in DOMAIN res[p].events :
                i < j => ~EventLess(res[p].events[j], res[p].events[i])

\* a query holds the read lock with the one event it found while another
\* caller waits for the lock to delete that event
C30_Witness ==
    \E p, q \in Procs :
        /\ pc[p] = "unlock" /\ call[p].op \in Queries
        /\ Len(res[p].events) = 1
        /\ pc[q] = "lock" /\ call[q].op = "Delete"
        /\ call[q].eventID = res[p].events[1].ID

\* the caller has written to the result of the query that returned to it
Changed == pc[Main] = "done" /\ call[Main].op \in Queries /\ "changed" \in DOMAIN res[Main]

\* the slice of result r as the query returned it
AsReturned(r) == IF "orig" \in DOMAIN r THEN r.orig ELSE r.events

\* a query has returned nil to the caller that had changed the result of the
\* same query before, with no event created since
AskedAgain ==
    /\ pc[Main] = "done" /\ call[Main].op \in Queries /\ res[Main].err = ErrNil
    /\ Last.q = QueryOf(call[Main])
    /\ Last.users = {}

\* C22: what a query returns is a copy of the stored events: after its caller
\* has assigned to a field of a returned event, or swapped or cut elements of
\* the returned slice, the store is the store of the moment the query was
\* called, and the same query made later returns the events the first one
\* returned, as they were before the caller changed them.
C22_NoAlias ==
    /\ Changed => events = pre
    /\ AskedAgain => Range(AsReturned(res[Main])) = Range(Last.events)

\* the caller assigned to a field of an event a query returned, and the same
\* query made again has returned the event as it is stored, without the
\* caller's change
C22_Witness ==
    /\ AskedAgain
    /\ Last.how = "write"
    /\ "changed" \notin DOMAIN res[Main]
    /\ Returns(res[Main]) # {}
    /\ Returns(res[Main]) = Range(Last.events)

\* the call that has returned to the lone caller had its context cancelled
\* when it was at one of the places of ats
CancelledAt(ats) ==
    /\ pc[Main] = "done"
    /\ "at" \in DOMAIN call[Main]
    /\ call[Main].at \in ats

\* what the call that has returned does on the store of its call when nothing
\* aborts it: its error or nil, its whole effect, its result
NormalOutcome ==
    IF call[Main].op \in Queries
    THEN /\ res[Main].err = ErrNil
         /\ Returns(res[Main]) = { e \in Range(pre) : Matches(call[Main], e) }
         /\ events = pre
    ELSE IF CheckFails(call[Main], pre)
    THEN res[Main].err = CheckErr(call[Main]) /\ events = pre
    ELSE /\ res[Main].err = ErrNil
         /\ events = IF call[Main].op = "Delete" THEN Remove(pre, call[Main].eventID)
                      ELSE Put(pre, call[Main].event)

\* the places of a call after the check of ctx.Err() of the store
InStore == {"lock", "check", "write", "scan", "unlock"}

\* C29 as stated: the context is checked at the entry of the use case and
\* nowhere else, so a call whose context is cancelled after that check is not
\* aborted: it goes through the store and returns its normal result.
C29_PolledOnce ==
    CancelledAt({"repo"} \cup InStore) =>
        res[Main].err # ErrCanceled /\ NormalOutcome

\* C29, amended: the context is checked at the entry of the use case and again
\* at the entry of the method of the store, and nowhere else. A call whose
\* context is cancelled after the check of the store is not aborted: it
\* completes its effect and returns its normal result. A call whose context is
\* cancelled between the two checks returns the error of the context and the
\* store is as before.
C29_PolledTwice ==
    /\ CancelledAt(InStore) => res[Main].err # ErrCanceled /\ NormalOutcome
    /\ CancelledAt({"repo"}) => res[Main].err = ErrCanceled /\ events = pre

\* CreateEvent whose context was cancelled between the existence check and the
\* assignment has stored its event and returned nil
C29_Witness ==
    /\ CancelledAt({"write"})
    /\ call[Main].uc = "CreateEvent"
    /\ res[Main].err = ErrNil
    /\ events # pre

\* the server has answered the lone client's request
Replied == pc[Main] = "replied"

\* the handler of that request called the use case
Invoked == call[Main].op # "none"

\* the request was for one of the paths of ps with the method m
Asked(m, ps) == Replied /\ call[Main].req.method = m /\ call[Main].req.path \in ps

\* C23: the response to a request whose handler called the use case has the
\* status of what the use case returned: 503 for ErrEventNotFound, 409 for
\* ErrEventConflict, 400 for each of the four validation errors, 500 with the
\* message "internal server error" for any other error, that of a cancelled
\* context among them, and 200 for nil.
C23_StatusCodes ==
    (Replied /\ Invoked) =>
        /\ res[Main].err = ErrEventNotFound => res[Main].status = 503
        /\ res[Main].err = ErrEventConflict => res[Main].status = 409
        /\ res[Main].err \in ValidationErrs => res[Main].status = 400
        /\ res[Main].err \notin {ErrNil, ErrEventNotFound, ErrEventConflict} \cup ValidationErrs =>
            /\ res[Main].status = 500
            /\ res[Main].body = [error |-> "internal server error"]
        /\ res[Main].err = ErrNil => res[Main].status = 200
        /\ res[Main].err # ErrNil => "result" \notin DOMAIN res[Main].body

\* update_event for an id that is not stored has been answered with 503
C23_Witness ==
    /\ Asked("POST", {"/update_event"}) /\ Invoked
    /\ res[Main].err = ErrEventNotFound
    /\ res[Main].status = 503
    /\ res[Main].body = [error |-> ErrEventNotFound]

Mutating == { "/create_event", "/update_event", "/delete_event" }

\* C24: a request to create_event, update_event or delete_event whose
\* Content-Type is not application/json, or whose body is not valid JSON, is
\* answered with 400, the use case is not called and the store is unchanged.
C24_JSONOnly ==
    (Asked("POST", Mutating)
        /\ (call[Main].req.ctype # "application/json" \/ ~ValidJSON(call[Main].req.body))) =>
            /\ res[Main].status = 400
            /\ ~Invoked
            /\ events = pre

Querying == { "/events_for_day", "/events_for_week", "/events_for_month" }

\* the events of the store the query of the lone client's request asks for
Asked_Events == { e \in Range(events) : Matches(RepoCall(UCCallOf(Mux(call[Main].req), call[Main].req)), e) }

\* C25: a request to events_for_day, events_for_week or events_for_month with
\* user_id or date missing or empty is answered with 400 and the use case is
\* not called; with both given and valid (and the request not cancelled) it is
\* answered with 200 and a result, which lists the matching events of the
\* store when there are any.
C25_QueryParams ==
    Asked("GET", Querying) =>
        /\ (Get(call[Main].req.query, "user_id", "") = ""
                \/ Get(call[Main].req.query, "date", << >>) = << >>) =>
            /\ res[Main].status = 400
            /\ res[Main].body = [error |-> ErrMissingParameters]
            /\ ~Invoked
        /\ (Get(call[Main].req.query, "user_id", "") # ""
                /\ Get(call[Main].req.query, "date", << >>) \in Dates
                /\ ~call[Main].ctx) =>
            /\ res[Main].status = 200
            /\ DOMAIN res[Main].body = {"result"}
            /\ Asked_Events # {} =>
                /\ Len(res[Main].body.result) = Cardinality(Asked_Events)
                /\ Range(res[Main].body.result) = Asked_Events

\* events_for_week with both parameters has been answered with 200 and the
\* one event of that user and week
C25_Witness ==
    /\ Asked("GET", {"/events_for_week"}) /\ Invoked
    /\ res[Main].status = 200
    /\ Asked_Events # {}
    /\ Range(res[Main].body.result) = Asked_Events

\* C27: every response to a request for a path of the API has the
\* Access-Control-Allow-* headers, and an OPTIONS request for such a path is
\* answered with 204, its handler is not called and the store is unchanged.
C27_CORS ==
    \A m \in {"GET", "POST", "PUT", "OPTIONS"} :
        Asked(m, APIPaths) =>
            /\ CORSHeaders \subseteq res[Main].header
            /\ m = "OPTIONS" =>
                /\ res[Main].status = 204
                /\ ~Invoked
                /\ events = pre

\* Run has returned
RunReturned == app.run = "returned"

\* Run has called Shutdown and returned what it returned: nil when the
\* shutdown completed, its error otherwise
ShutdownPath ==
    /\ app.shut \notin {"none", "begun"}
    /\ app.ret = IF app.shut = "completed" THEN ErrNil ELSE app.shut

\* Run has returned the error of the listener and has not called Shutdown
ErrPath == app.shut = "none" /\ app.ret \in ListenErrs

\* C26 as stated: when Run has returned and the first of a signal and a
\* failure of the listener was a signal, Run has called Shutdown and returned
\* nil or the error of the shutdown; when the listener failed before any
\* signal, Run has returned the listener's error instead.
C26_Run ==
    RunReturned =>
        /\ app.first = "signal" => ShutdownPath
        /\ app.first = "listen" => ErrPath

\* a signal that arrived before signal.Notify has ended the process
Killed == app.run = "killed"

\* C26, amended: a SIGINT or SIGTERM that arrives before handleSignals has
\* called signal.Notify ends the process: Run calls no Shutdown and does not
\* return. After any other SIGINT or SIGTERM Run calls Shutdown and returns
\* nil or the error of the shutdown, unless the listener has failed by the
\* time Run acts on the cancellation, when Run may return the listener's
\* error and call no Shutdown; when the listener fails before any signal Run
\* returns that error, unless a signal has cancelled the context by the time
\* Run acts on the error, when Run may shut down instead. Once a signal is
\* received and the process goes on, Run returns.
C26_RunSelect ==
    /\ [](RunReturned =>
            /\ (app.first = "signal" /\ "serverErr" \notin app.ready) => ShutdownPath
            /\ (app.first = "listen" /\ "ctx.Done" \notin app.ready) => ErrPath
            /\ ShutdownPath \/ ErrPath)
    /\ [](Killed => /\ app.hs = "notify" /\ app.sig # "none"
                    /\ app.shut = "none" /\ app.ret = "none"
                    /\ [](Killed))
    /\ ((app.sig # "none" /\ ~Killed) ~> RunReturned)

\* after SIGTERM, with the listener closed by the shutdown, Run has returned
\* the error of a shutdown that did not complete
C26_Witness ==
    /\ RunReturned /\ app.sig = "SIGTERM" /\ app.first = "signal"
    /\ app.srv = "closed"
    /\ app.shut = "context deadline exceeded"
    /\ app.ret = "context deadline exceeded"

\* the lone caller's week or month query has returned
DidRange == Did("GetByUserIDAndWeek") \/ Did("GetByUserIDAndMonth")

\* C31: GetByUserIDAndWeek and GetByUserIDAndMonth called with a date that
\* does not parse, on a store whose events all have valid dates, return nil
\* and no event.
C31_BadTargetEmpty ==
    (DidRange /\ ~isValidDate(call[Main].date)
        /\ \A e \in Range(pre) : isValidDate(e.Date)) =>
            /\ res[Main].err = ErrNil
            /\ Returns(res[Main]) = {}

\* C32: Create stores an event whose date does not parse; a week or month
\* query then returns nil and not that event, whatever the date asked for,
\* and for a valid date it returns every event of the user with a valid date
\* of that week or month.
C32_BadEventSkipped ==
    DidRange =>
        /\ res[Main].err = ErrNil
        /\ \A e \in Returns(res[Main]) : isValidDate(e.Date)
        /\ isValidDate(call[Main].date) =>
            \A e \in Range(pre) :
                (e.UserID = call[Main].userID /\ isValidDate(e.Date)
                    /\ IF call[Main].op = "GetByUserIDAndWeek"
                       THEN SameWeek(e.Date, call[Main].date)
                       ELSE SameMonth(e.Date, call[Main].date))
                => e \in Returns(res[Main])

\* a week query for 2025-01-15 on a store with an event dated 2025/01/15 and
\* one dated 2025-01-15 has returned the second alone
C32_Witness ==
    /\ Did("GetByUserIDAndWeek") /\ call[Main].date = DateStr(2025, 1, 15)
    /\ \E e \in Range(pre) : e.Date \in RawBad
    /\ Len(res[Main].events) = 1
    /\ res[Main].events[1].Date = DateStr(2025, 1, 15)

\* the lone caller's call of the use case passed the validation, went to the
\* store with a context that was not cancelled, and has returned
PassedOn(op) ==
    /\ pc[Main] = "done" /\ Delegated(call[Main]) /\ call[Main].uc = op
    /\ res[Main].err # ErrCanceled

\* C33: a call of the use case with valid arguments and a context that is not
\* cancelled returns what the method of the store returns on the store of
\* that moment, as it is, and leaves the store as that method does:
\* CreateEvent nil with the event inserted or ErrEventConflict with nothing
\* changed, UpdateEvent and DeleteEvent nil with the entry replaced or removed
\* or ErrEventNotFound with nothing changed, the three queries nil and the
\* matching events in order with nothing changed.
C33_PassThrough ==
    /\ PassedOn("CreateEvent") =>
        IF call[Main].event.ID \in DOMAIN pre
        THEN res[Main] = [err |-> ErrEventConflict] /\ events = pre
        ELSE /\ res[Main] = [err |-> ErrNil]
             /\ IsPut(events, pre, call[Main].event.ID, call[Main].event)
    /\ PassedOn("UpdateEvent") =>
        IF call[Main].event.ID \notin DOMAIN pre
        THEN res[Main] = [err |-> ErrEventNotFound] /\ events = pre
        ELSE /\ res[Main] = [err |-> ErrNil]
             /\ IsPut(events, pre, call[Main].event.ID, call[Main].event)
    /\ PassedOn("DeleteEvent") =>
        IF call[Main].eventID \notin DOMAIN pre
        THEN res[Main] = [err |-> ErrEventNotFound] /\ events = pre
        ELSE /\ res[Main] = [err |-> ErrNil]
             /\ IsRemove(events, pre, call[Main].eventID)
    /\ \A op \in UCQueries :
        PassedOn(op) =>
            /\ res[Main].err = ErrNil
            /\ res[Main].events \in SortedSeqs({ e \in Range(pre) : Matches(call[Main], e) })
            /\ events = pre

\* TestEventUseCase_CreateEvent: the second CreateEvent of a valid event has
\* returned the store's ErrEventConflict
C33_Witness ==
    /\ PassedOn("CreateEvent")
    /\ res[Main].err = ErrEventConflict
    /\ pre[call[Main].event.ID] = call[Main].event

\* the query that has returned nil to the lone caller is the last query that
\* returned nil before it
Repeated ==
    /\ pc[Main] = "done" /\ call[Main].op \in Queries /\ res[Main].err = ErrNil
    /\ Last.q = QueryOf(call[Main])

\* C34: a query, whatever its arguments and whatever it returns, leaves the
\* store as it was when it was called, and a query repeated with no
\* successful Create, Update or Delete in between returns the same set of
\* events.
C34_ReadOnly ==
    /\ (pc[Main] = "done" /\ call[Main].op \in Queries) => events = pre
    /\ (Repeated /\ Last.users = {}) => Returns(res[Main]) = Range(Last.events)

\* the day query of user-1 has returned the same two events twice in a row
C34_Witness ==
    /\ Repeated /\ Last.users = {}
    /\ call[Main].op = "GetByUserIDAndDate"
    /\ Cardinality(Returns(res[Main])) = 2
    /\ Returns(res[Main]) = Range(Last.events)

\* C37: a query repeated with the same arguments on the same store, no
\* successful Create, Update or Delete in between, returns the same sequence
\* of events, also when events of one date and one title with different ids
\* match.
C37_SameSequence ==
    (Repeated /\ Last.users = {}) => res[Main].events = Last.events

\* no two of the events of the sequence q have the same date and title
NoTies(q) ==
    \A i, j \in DOMAIN q : i # j => (q[i].Date # q[j].Date \/ q[i].Title # q[j].Title)

\* C38: when every Create, Update and Delete that returned nil since the last
\* query of user u wrote and removed events of other users only, the same
\* query of u returns the same events, and in the same order when no two of
\* them have the same date and title.
C38_OtherUsers ==
    (Repeated /\ call[Main].userID \notin Last.users) =>
        /\ Returns(res[Main]) = Range(Last.events)
        /\ NoTies(Last.events) => res[Main].events = Last.events

\* the day query of user-1 has returned its event again after an event of
\* user-2 of that day was stored
C38_Witness ==
    /\ Repeated /\ Last.users = {"user-2"}
    /\ call[Main].userID = "user-1" /\ call[Main].op = "GetByUserIDAndDate"
    /\ Len(res[Main].events) = 1
    /\ res[Main].events = Last.events
    /\ \E e \in Range(events) : e.UserID = "user-2" /\ e.Date = call[Main].date

\* the lone caller's Create, Update or Delete has returned nil
DidWrite(op) == Did(op) /\ res[Main].err = ErrNil

\* C35: a Create, Update or Delete that returned nil changed only the entry of
\* its own id: every other id is stored after the call exactly when it was
\* before, with the same event; the set of stored ids has gained exactly the
\* event's id after a Create, lost exactly the id after a Delete, and is the
\* same after an Update.
C35_Frame ==
    /\ \A op \in Mutations : DidWrite(op) =>
        \A k \in IDs \ {CallID(call[Main])} :
            /\ k \in DOMAIN events <=> k \in DOMAIN pre
            /\ k \in DOMAIN pre => events[k] = pre[k]
    /\ DidWrite("Create") =>
        /\ call[Main].event.ID \notin DOMAIN pre
        /\ DOMAIN events = DOMAIN pre \cup {call[Main].event.ID}
    /\ DidWrite("Delete") =>
        /\ call[Main].eventID \in DOMAIN pre
        /\ DOMAIN events = DOMAIN pre \ {call[Main].eventID}
    /\ DidWrite("Update") => DOMAIN events = DOMAIN pre

\* a Delete has returned nil on a store that held another event, which is
\* still stored
C35_Witness ==
    /\ DidWrite("Delete")
    /\ \E k \in DOMAIN pre \ {call[Main].eventID} :
        k \in DOMAIN events /\ events[k] = pre[k]
\* goroutine p is inside a method of the store
Running(p) == pc[p] \notin {"idle", "done"}

\* no goroutine is inside a method of the store
AllReturned == \A p \in Procs : ~Running(p)

\* C36: the store never deadlocks: of at most MaxCalls calls made by
\* concurrent goroutines that are scheduled fairly, every one returns; and
\* every return path (nil, ErrEventConflict, ErrEventNotFound, the result of a
\* query) has released the lock, so the lock is free whenever no goroutine is
\* inside a method.
C36_NoDeadlock ==
    /\ \A p \in Procs : Running(p) ~> (pc[p] = "done")
    /\ [](AllReturned => mu = [w |-> FALSE, r |-> 0])

\* a Create has returned ErrEventConflict, a Delete ErrEventNotFound, no
\* goroutine is inside a method and the lock is free
C36_Witness ==
    /\ AllReturned
    /\ \E p \in Procs : pc[p] = "done" /\ res[p].err = ErrEventConflict
    /\ \E p \in Procs : pc[p] = "done" /\ res[p].err = ErrEventNotFound
    /\ mu = [w |-> FALSE, r |-> 0]
====
